---- MODULE Spec2Model ----
(***************************************************************************)
(* Verification model of the projection compiler of qwiery-sql:            *)
(*   - toSQL       (src/src/projections.ts): operator tree -> string       *)
(*   - toSequelize (sequelize.ts): raw filter -> Sequelize where clause    *)
(*                                                                         *)
(* JavaScript strings are modelled as sequences of one-character strings,  *)
(* so that concatenation, quoting and joining are computed character by    *)
(* character.  JavaScript values are tagged records:                       *)
(*   [kind |-> "string",  chars |-> <<..>>]   [kind |-> "number", num |-> n]*)
(*   [kind |-> "boolean", bool |-> b]         [kind |-> "array", items |-> s]*)
(*   [kind |-> "object",  props |-> <<[key, value], ..>>]  (own keys, in   *)
(*                                               property order)            *)
(*   [kind |-> "null"]                        [kind |-> "undefined"]        *)
(* A call either completes ([kind |-> "ok", ...]) or throws                *)
(* ([kind |-> "throw", error, message]).                                   *)
(***************************************************************************)
EXTENDS Integers, Sequences, FiniteSets, TLC

VARIABLES
    node,         \* toSQL: the operator tree passed as q
    variableArg,  \* toSQL: the variable argument (may be left out)
    rendered,     \* toSQL: outcome of the call, NotCalled before it
    projector,    \* toSequelize: the raw filter passed in
    translated,   \* toSequelize: outcome of the call, NotCalled before it
    isInitialized, \* adapter: the schema has been set up
    N,            \* adapter: the rows of the Nodes table
    E,            \* adapter: the rows of the Edges table
    reply,        \* adapter: the latest API call and its outcome
    pending,      \* adapter: the destroy() calls deleteNode started and did not await
    graphElement, \* record conversion: the graph element passed in
    converted,    \* record conversion: outcome of the call, NotCalled before it
    adapterOptions, \* adapter: the options object handed to setup
    pc,           \* adapter: where each API call in flight stands
    connections,  \* adapter: the Sequelize connections made so far
    schema        \* adapter: the connection db, N and E belong to, 0 while undefined

vars == <<node, variableArg, rendered, projector, translated, isInitialized, N, E, reply,
          pending, graphElement, converted, adapterOptions, pc, connections, schema>>

----------------------------------------------------------------------------
(* JavaScript values *)

Str(c)  == [kind |-> "string", chars |-> c]
Num(n)  == [kind |-> "number", num |-> n]
Bool(b) == [kind |-> "boolean", bool |-> b]
Arr(s)  == [kind |-> "array", items |-> s]
Obj(p)  == [kind |-> "object", props |-> p]
Null      == [kind |-> "null"]
Undefined == [kind |-> "undefined"]

Ok(t) == [kind |-> "ok", text |-> t]
Throw(e, m) == [kind |-> "throw", error |-> e, message |-> m]
NotCalled == [kind |-> "notCalled"]
NoInput == [kind |-> "noInput"]

(* the API calls a client may have in flight at one time *)
MaxClients == 2
Clients == 1..MaxClients

(* an API call that has not been issued *)
Idle == [at |-> "idle"]

(* parseSchemaOptions: without options the storage is in memory and        *)
(* recreateTables is false                                                   *)
DefaultSchemaOptions == [storage |-> "memory", recreateTables |-> FALSE]

(* SqlAdapter(options, done): nothing is connected when the adapter has    *)
(* been constructed                                                         *)
Constructed(given) ==
    /\ adapterOptions = given
    /\ pc = [c \in Clients |-> Idle]
    /\ connections = 0
    /\ schema = 0

(* concatenation of a sequence of strings *)
RECURSIVE Concat(_)
Concat(ss) == IF ss = <<>> THEN <<>> ELSE Head(ss) \o Concat(Tail(ss))

(* Array.prototype.join on an array of strings *)
RECURSIVE Join(_, _)
Join(ss, sep) ==
    IF ss = <<>> THEN <<>>
    ELSE IF Len(ss) = 1 THEN ss[1]
    ELSE ss[1] \o sep \o Join(Tail(ss), sep)

DigitChars == <<"0", "1", "2", "3", "4", "5", "6", "7", "8", "9">>

RECURSIVE Digits(_)
Digits(n) ==
    IF n < 10 THEN <<DigitChars[n + 1]>>
    ELSE Digits(n \div 10) \o <<DigitChars[(n % 10) + 1]>>

(* Number -> string for integers *)
NumberToString(n) == IF n < 0 THEN <<"-">> \o Digits(0 - n) ELSE Digits(n)

(* String(v), as applied by a template literal `${v}` and, with null and *)
(* undefined mapped to '', by Array.prototype.join                        *)
RECURSIVE ToJSString(_)
ToJSString(v) ==
    CASE v.kind = "string" -> v.chars
      [] v.kind = "number" -> NumberToString(v.num)
      [] v.kind = "boolean" ->
            IF v.bool THEN <<"t", "r", "u", "e">> ELSE <<"f", "a", "l", "s", "e">>
      [] v.kind = "null" -> <<"n", "u", "l", "l">>
      [] v.kind = "undefined" -> <<"u", "n", "d", "e", "f", "i", "n", "e", "d">>
      [] v.kind = "array" ->
            Join([i \in 1..Len(v.items) |->
                    IF v.items[i].kind \in {"null", "undefined"} THEN <<>>
                    ELSE ToJSString(v.items[i])], <<",">>)
      [] v.kind = "object" ->
            <<"[", "o", "b", "j", "e", "c", "t", " ", "O", "b", "j", "e", "c", "t", "]">>

JoinElement(v) == IF v.kind \in {"null", "undefined"} THEN <<>> ELSE ToJSString(v)

----------------------------------------------------------------------------
(* Operator keywords *)

OP_EQ == <<"$", "e", "q">>
OP_LT == <<"$", "l", "t">>
OP_LTE == <<"$", "l", "t", "e">>
OP_GT == <<"$", "g", "t">>
OP_GTE == <<"$", "g", "t", "e">>
OP_IN == <<"$", "i", "n">>
OP_AND == <<"$", "a", "n", "d">>
OP_OR == <<"$", "o", "r">>
OP_ALL == <<"$", "a", "l", "l">>
OP_SIZE == <<"$", "s", "i", "z", "e">>
OP_STARTSWITH == <<"$", "s", "t", "a", "r", "t", "s", "W", "i", "t", "h">>
OP_CONTAINS == <<"$", "c", "o", "n", "t", "a", "i", "n", "s">>
OP_REGEX == <<"$", "r", "e", "g", "e", "x">>
OP_EQQ == <<"$", "e", "q", "q">>   \* a keyword outside the reserved set

----------------------------------------------------------------------------
(* projections.ts *)

(* getSqlOperator with '$lte' given the symbol of '$lt' *)
getSqlOperator_LteAsLt(o) ==
    CASE o = OP_EQ -> Ok(<<"=">>)
      [] o = OP_LT -> Ok(<<"<">>)
      [] o = OP_LTE -> Ok(<<"<">>)
      [] o = OP_GT -> Ok(<<">">>)
      [] o = OP_GTE -> Ok(<<">", "=">>)
      [] o = OP_IN -> Ok(<<"i", "n">>)
      [] o = OP_AND -> Ok(<<"a", "n", "d">>)
      [] o = OP_OR -> Ok(<<"o", "r">>)
      [] OTHER -> Throw("Error",
                        <<"U", "n", "r", "e", "c", "o", "g", "n", "i", "z", "e", "d", " ",
                          "o", "p", "e", "r", "a", "t", "o", "r", " ", "'">>
                        \o o \o <<"'", ".">>)

(* getSqlOperator whose default case hands the keyword back *)
getSqlOperator_DefaultReturns(o) ==
    CASE o = OP_EQ -> Ok(<<"=">>)
      [] o = OP_LT -> Ok(<<"<">>)
      [] o = OP_LTE -> Ok(<<"<", "=">>)
      [] o = OP_GT -> Ok(<<">">>)
      [] o = OP_GTE -> Ok(<<">", "=">>)
      [] o = OP_IN -> Ok(<<"i", "n">>)
      [] o = OP_AND -> Ok(<<"a", "n", "d">>)
      [] o = OP_OR -> Ok(<<"o", "r">>)
      [] OTHER -> Ok(o)

getSqlOperator(o) ==
    CASE o = OP_EQ -> Ok(<<"=">>)
      [] o = OP_LT -> Ok(<<"<">>)
      [] o = OP_LTE -> Ok(<<"<", "=">>)
      [] o = OP_GT -> Ok(<<">">>)
      [] o = OP_GTE -> Ok(<<">", "=">>)
      [] o = OP_IN -> Ok(<<"i", "n">>)
      [] o = OP_AND -> Ok(<<"a", "n", "d">>)
      [] o = OP_OR -> Ok(<<"o", "r">>)
      [] OTHER -> Throw("Error",
                        <<"U", "n", "r", "e", "c", "o", "g", "n", "i", "z", "e", "d", " ",
                          "o", "p", "e", "r", "a", "t", "o", "r", " ", "'">>
                        \o o \o <<"'", ".">>)

(* a string with every single quote doubled *)
RECURSIVE EscapeQuotes(_)
EscapeQuotes(c) ==
    IF c = <<>> THEN <<>>
    ELSE (IF Head(c) = "'" THEN <<"'", "'">> ELSE <<Head(c)>>) \o EscapeQuotes(Tail(c))

RECURSIVE getOperand(_)

(* getOperand escaping the quotes of a string *)
getOperand_Escaping(o) ==
    IF o.kind = "string" THEN Str(<<"'">> \o EscapeQuotes(o.chars) \o <<"'">>)
    ELSE IF o.kind \in {"number", "boolean"} THEN Str(ToJSString(o))
    ELSE IF o.kind = "array" THEN
        IF Len(o.items) = 0 THEN Str(<<"[", "]">>)
        ELSE Str(Join([i \in 1..Len(o.items) |-> JoinElement(getOperand(o.items[i]))],
                      <<",", " ">>))
    ELSE Undefined

(* returns a JavaScript value: a string, or undefined when no branch applies *)
getOperand(o) ==
    IF o.kind = "string" THEN Str(<<"'">> \o o.chars \o <<"'">>)
    ELSE IF o.kind \in {"number", "boolean"} THEN Str(ToJSString(o))
    ELSE IF o.kind = "array" THEN
        IF Len(o.items) = 0 THEN Str(<<"[", "]">>)
        ELSE Str(Join([i \in 1..Len(o.items) |-> JoinElement(getOperand(o.items[i]))],
                      <<",", " ">>))
    ELSE Undefined

(* An operator-tree node {operator?, field?, operand?, parts?}.  An absent  *)
(* operator or field is the empty string (both are falsy in the tests of   *)
(* toSQL), an absent operand is Undefined, an absent parts has hasParts    *)
(* FALSE.                                                                  *)
Node(op, f, v, hp, ps) ==
    [operator |-> op, field |-> f, operand |-> v, hasParts |-> hp, parts |-> ps]

NotIterable ==
    <<"q", ".", "p", "a", "r", "t", "s", " ", "i", "s", " ", "n", "o", "t", " ",
      "i", "t", "e", "r", "a", "b", "l", "e">>
NoLength ==
    <<"C", "a", "n", "n", "o", "t", " ", "r", "e", "a", "d", " ",
      "p", "r", "o", "p", "e", "r", "t", "i", "e", "s", " ", "o", "f", " ",
      "u", "n", "d", "e", "f", "i", "n", "e", "d">>

(* the first exception among the outcomes of a loop that runs in order *)
FirstThrow(rs) ==
    rs[CHOOSE i \in 1..Len(rs) :
          /\ rs[i].kind = "throw"
          /\ \A j \in 1..(i - 1) : rs[j].kind # "throw"]

AnyThrow(rs) == \E i \in 1..Len(rs) : rs[i].kind = "throw"

Texts(rs) == [i \in 1..Len(rs) |-> rs[i].text]

(* the text of `${variable}.${q.field}` *)
Target(q, variable) == variable \o <<".">> \o q.field

(* arrayOperandBranch without the parentheses around the operand *)
arrayOperandBranch_NoInnerParentheses(q, variable) ==
    IF q.operator = OP_ALL THEN
        Ok(<<"(">> \o ToJSString(getOperand(q.operand)) \o <<" ", "i", "n", " ">>
           \o Target(q, variable) \o <<")">>)
    ELSE
        LET sym == getSqlOperator(q.operator) IN
        IF sym.kind = "throw" THEN sym
        ELSE Ok(<<"(">> \o Target(q, variable) \o <<" ">> \o sym.text \o <<" ">>
                \o ToJSString(getOperand(q.operand)) \o <<")">>)

(* arrayOperandBranch with '$all' in the direction of '$in' *)
arrayOperandBranch_AllAsIn(q, variable) ==
    IF q.operator = OP_ALL THEN
        Ok(<<"(">> \o Target(q, variable) \o <<" ", "i", "n", " ">>
           \o ToJSString(getOperand(q.operand)) \o <<")">>)
    ELSE
        LET sym == getSqlOperator(q.operator) IN
        IF sym.kind = "throw" THEN sym
        ELSE Ok(<<"(">> \o Target(q, variable) \o <<" ">> \o sym.text \o <<" ", "(">>
                \o ToJSString(getOperand(q.operand)) \o <<")", ")">>)

(* toSQL, lines 51-57: the predicate of a node whose operand is an array *)
arrayOperandBranch(q, variable) ==
    IF q.operator = OP_ALL THEN
        Ok(<<"(">> \o ToJSString(getOperand(q.operand)) \o <<" ", "i", "n", " ">>
           \o Target(q, variable) \o <<")">>)
    ELSE
        LET sym == getSqlOperator(q.operator) IN
        IF sym.kind = "throw" THEN sym
        ELSE Ok(<<"(">> \o Target(q, variable) \o <<" ">> \o sym.text \o <<" ", "(">>
                \o ToJSString(getOperand(q.operand)) \o <<")", ")">>)

(* scalarOperandBranch with '$size' as a plain comparison and '$contains' *)
(* as a prefix match                                                       *)
scalarOperandBranch_PlainSize(q, variable) ==
    IF q.operator = OP_SIZE THEN
        Ok(<<"(">> \o Target(q, variable)
           \o <<" ", "=", " ">> \o ToJSString(getOperand(q.operand)) \o <<")">>)
    ELSE IF q.operator = OP_STARTSWITH THEN
        Ok(<<"(">> \o Target(q, variable) \o <<" ", "l", "i", "k", "e", " ", "'">>
           \o ToJSString(q.operand) \o <<"%", "'", ")">>)
    ELSE IF q.operator = OP_CONTAINS THEN
        Ok(<<"(">> \o Target(q, variable) \o <<" ", "l", "i", "k", "e", " ", "'">>
           \o ToJSString(q.operand) \o <<"%", "'", ")">>)
    ELSE IF q.operator = OP_REGEX THEN
        Ok(<<"(">> \o Target(q, variable) \o <<" ", "r", "e", "g", "e", "x", "p", " ", "'">>
           \o ToJSString(q.operand) \o <<"'", ")">>)
    ELSE
        LET sym == getSqlOperator(q.operator) IN
        IF sym.kind = "throw" THEN sym
        ELSE Ok(<<"(">> \o Target(q, variable) \o <<" ">> \o sym.text \o <<" ">>
                \o ToJSString(getOperand(q.operand)) \o <<")">>)

(* toSQL, lines 58-75: the predicate of a node whose operand is not an array *)
scalarOperandBranch(q, variable) ==
    IF q.operator = OP_SIZE THEN
        Ok(<<"(", "l", "e", "n", "g", "t", "h", "(">> \o Target(q, variable)
           \o <<")", " ", "=", " ">> \o ToJSString(getOperand(q.operand)) \o <<")">>)
    ELSE IF q.operator = OP_STARTSWITH THEN
        Ok(<<"(">> \o Target(q, variable) \o <<" ", "l", "i", "k", "e", " ", "'">>
           \o ToJSString(q.operand) \o <<"%", "'", ")">>)
    ELSE IF q.operator = OP_CONTAINS THEN
        Ok(<<"(">> \o Target(q, variable) \o <<" ", "l", "i", "k", "e", " ", "'", "%">>
           \o ToJSString(q.operand) \o <<"%", "'", ")">>)
    ELSE IF q.operator = OP_REGEX THEN
        Ok(<<"(">> \o Target(q, variable) \o <<" ", "r", "e", "g", "e", "x", "p", " ", "'">>
           \o ToJSString(q.operand) \o <<"'", ")">>)
    ELSE
        LET sym == getSqlOperator(q.operator) IN
        IF sym.kind = "throw" THEN sym
        ELSE Ok(<<"(">> \o Target(q, variable) \o <<" ">> \o sym.text \o <<" ">>
                \o ToJSString(getOperand(q.operand)) \o <<")">>)

(* how the block of lines 49-85 ends: by `return s`, by an exception, or by *)
(* falling through to line 87 with the s built so far                      *)
Return(s) == [kind |-> "return", text |-> s]
FallThrough(s) == [kind |-> "fallThrough", text |-> s]

RECURSIVE toSQL(_, _, _)

(* connectiveBranch without its `return s`: the trailing loop runs too *)
connectiveBranch_NoReturn(q, variable) ==
    LET conjunctor == getSqlOperator(q.operator)
        coll == [i \in 1..Len(q.parts) |-> toSQL(q.parts[i], variable, 0)]
    IN  IF conjunctor.kind = "throw" THEN conjunctor
        ELSE IF ~q.hasParts THEN Throw("TypeError", NotIterable)
        ELSE IF AnyThrow(coll) THEN FirstThrow(coll)
        ELSE FallThrough(Join(Texts(coll), <<" ">> \o conjunctor.text \o <<" ">>))

(* toSQL, lines 76-84: a node with an operator and no field *)
connectiveBranch(q, variable) ==
    LET conjunctor == getSqlOperator(q.operator)
        coll == [i \in 1..Len(q.parts) |-> toSQL(q.parts[i], variable, 0)]
    IN  IF conjunctor.kind = "throw" THEN conjunctor
        ELSE IF ~q.hasParts THEN Throw("TypeError", NotIterable)
        ELSE IF AnyThrow(coll) THEN FirstThrow(coll)
        ELSE Return(Join(Texts(coll), <<" ">> \o conjunctor.text \o <<" ">>))

(* trailingParts putting ' and ' between the parts *)
trailingParts_Joined(q, variable, level, s) ==
    LET rs == [i \in 1..Len(q.parts) |-> toSQL(q.parts[i], variable, level + 1)]
    IN  IF ~q.hasParts THEN Throw("TypeError", NoLength)
        ELSE IF AnyThrow(rs) THEN FirstThrow(rs)
        ELSE Ok(s \o Join(Texts(rs), <<" ", "a", "n", "d", " ">>))

(* toSQL, lines 87-92: the trailing loop over the parts *)
trailingParts(q, variable, level, s) ==
    LET rs == [i \in 1..Len(q.parts) |-> toSQL(q.parts[i], variable, level + 1)]
    IN  IF ~q.hasParts THEN Throw("TypeError", NoLength)
        ELSE IF AnyThrow(rs) THEN FirstThrow(rs)
        ELSE Ok(s \o Concat(Texts(rs)))

toSQL(q, variable, level) ==
    LET predicate ==
            IF q.operand.kind = "array" THEN arrayOperandBranch(q, variable)
            ELSE scalarOperandBranch(q, variable)
        block ==
            IF q.operator # <<>> THEN
                IF q.field # <<>> THEN
                    IF predicate.kind = "throw" THEN predicate
                    ELSE FallThrough(predicate.text)
                ELSE connectiveBranch(q, variable)
            ELSE FallThrough(<<>>)
    IN  IF block.kind = "throw" THEN block
        ELSE IF block.kind = "return" THEN Ok(block.text)
        ELSE trailingParts(q, variable, level, block.text)

(* a call toSQL(q) or toSQL(q, variable): the default parameter values *)
DefaultVariable == <<"n">>
toSQLCall(q, arg) == toSQL(q, IF arg.given THEN arg.name ELSE DefaultVariable, 0)

----------------------------------------------------------------------------
(* sequelize.ts *)

(* a property of an object; a key is a string or a Sequelize Op symbol *)
Prop(k, v) == [key |-> k, value |-> v]
Sym(name) == [kind |-> "symbol", op |-> name]

OkValue(v) == [kind |-> "ok", value |-> v]

DataPrefix == <<"d", "a", "t", "a", ".">>
KEY_ID == <<"i", "d">>
KEY_LABELS == <<"l", "a", "b", "e", "l", "s">>

SizeMessage == <<"S", "h", "o", "u", "l", "d", " ", "h", "a", "v", "e", " ", "b", "e", "e", "n", " ", "h", "a", "n", "d", "l", "e", "d", " ", "s", "e", "p", "a", "r", "a", "t", "e", "l", "y", " ", "a", "l", "r", "e", "a", "d", "y", ".">>
NotAnObject == <<"C", "a", "n", "n", "o", "t", " ", "c", "o", "n", "v", "e", "r", "t", " ", "u", "n", "d", "e", "f", "i", "n", "e", "d", " ", "o", "r", " ", "n", "u", "l", "l", " ", "t", "o", " ", "o", "b", "j", "e", "c", "t">>

(* getSequelizeOperator rejecting a '$' key it has no case for *)
getSequelizeOperator_Strict(operator) ==
    CASE operator = OP_EQ -> OkValue(Sym("eq"))
      [] operator = OP_LT -> OkValue(Sym("lt"))
      [] operator = OP_LTE -> OkValue(Sym("lte"))
      [] operator = OP_GT -> OkValue(Sym("gt"))
      [] operator = OP_GTE -> OkValue(Sym("gte"))
      [] operator = OP_IN -> OkValue(Sym("in"))
      [] operator = OP_AND -> OkValue(Sym("and"))
      [] operator = OP_OR -> OkValue(Sym("or"))
      [] operator = OP_STARTSWITH -> OkValue(Sym("startsWith"))
      [] operator = OP_CONTAINS -> OkValue(Sym("substring"))
      [] operator = OP_SIZE -> Throw("Error", SizeMessage)
      [] OTHER ->
            IF operator \in {KEY_ID, KEY_LABELS} THEN OkValue(Str(operator))
            ELSE IF operator # <<>> /\ Head(operator) = "$"
            THEN Throw("Error", <<"U", "n", "r", "e", "c", "o", "g", "n", "i", "z", "e", "d">>)
            ELSE OkValue(Str(DataPrefix \o operator))

(* getSequelizeOperator prefixing 'id' and 'labels' like any other key *)
getSequelizeOperator_NoPassThrough(operator) ==
    CASE operator = OP_EQ -> OkValue(Sym("eq"))
      [] operator = OP_LT -> OkValue(Sym("lt"))
      [] operator = OP_LTE -> OkValue(Sym("lte"))
      [] operator = OP_GT -> OkValue(Sym("gt"))
      [] operator = OP_GTE -> OkValue(Sym("gte"))
      [] operator = OP_IN -> OkValue(Sym("in"))
      [] operator = OP_AND -> OkValue(Sym("and"))
      [] operator = OP_OR -> OkValue(Sym("or"))
      [] operator = OP_STARTSWITH -> OkValue(Sym("startsWith"))
      [] operator = OP_CONTAINS -> OkValue(Sym("substring"))
      [] operator = OP_SIZE -> Throw("Error", SizeMessage)
      [] OTHER -> OkValue(Str(DataPrefix \o operator))

(* getSequelizeOperator without the case for '$contains' *)
getSequelizeOperator_NoContains(operator) ==
    CASE operator = OP_EQ -> OkValue(Sym("eq"))
      [] operator = OP_LT -> OkValue(Sym("lt"))
      [] operator = OP_LTE -> OkValue(Sym("lte"))
      [] operator = OP_GT -> OkValue(Sym("gt"))
      [] operator = OP_GTE -> OkValue(Sym("gte"))
      [] operator = OP_IN -> OkValue(Sym("in"))
      [] operator = OP_AND -> OkValue(Sym("and"))
      [] operator = OP_OR -> OkValue(Sym("or"))
      [] operator = OP_STARTSWITH -> OkValue(Sym("startsWith"))
      [] operator = OP_SIZE -> Throw("Error", SizeMessage)
      [] OTHER ->
            IF operator \in {KEY_ID, KEY_LABELS} THEN OkValue(Str(operator))
            ELSE OkValue(Str(DataPrefix \o operator))

getSequelizeOperator(operator) ==
    CASE operator = OP_EQ -> OkValue(Sym("eq"))
      [] operator = OP_LT -> OkValue(Sym("lt"))
      [] operator = OP_LTE -> OkValue(Sym("lte"))
      [] operator = OP_GT -> OkValue(Sym("gt"))
      [] operator = OP_GTE -> OkValue(Sym("gte"))
      [] operator = OP_IN -> OkValue(Sym("in"))
      [] operator = OP_AND -> OkValue(Sym("and"))
      [] operator = OP_OR -> OkValue(Sym("or"))
      [] operator = OP_STARTSWITH -> OkValue(Sym("startsWith"))
      [] operator = OP_CONTAINS -> OkValue(Sym("substring"))
      [] operator = OP_SIZE -> Throw("Error", SizeMessage)
      [] OTHER ->
            IF operator \in {KEY_ID, KEY_LABELS} THEN OkValue(Str(operator))
            ELSE OkValue(Str(DataPrefix \o operator))

(* Object.keys(v) with v[key]: the own enumerable string-keyed properties  *)
(* of a value - those of an object, the indices of an array or a string,   *)
(* none for a number or boolean                                            *)
OwnEntries(v) ==
    CASE v.kind = "object" -> SelectSeq(v.props, LAMBDA e : e.key.kind = "string")
      [] v.kind = "array" ->
            [i \in 1..Len(v.items) |-> Prop(Str(NumberToString(i - 1)), v.items[i])]
      [] v.kind = "string" ->
            [i \in 1..Len(v.chars) |-> Prop(Str(NumberToString(i - 1)), Str(<<v.chars[i]>>))]
      [] OTHER -> <<>>

(* r[k] = v on the property list of r: an existing property keeps its      *)
(* place, a new string key goes after the string keys, a new symbol last   *)
SetProp(r, k, v) ==
    IF \E i \in 1..Len(r) : r[i].key = k
    THEN [i \in 1..Len(r) |-> IF r[i].key = k THEN Prop(k, v) ELSE r[i]]
    ELSE IF k.kind = "symbol" THEN Append(r, Prop(k, v))
    ELSE SelectSeq(r, LAMBDA e : e.key.kind = "string") \o <<Prop(k, v)>>
         \o SelectSeq(r, LAMBDA e : e.key.kind = "symbol")

(* Sequelize.where(Sequelize.fn('json_array_length', Sequelize.col('data'), *)
(*                 Sequelize.literal(`"$.<key>"`)), value)                  *)
SizeConstraint(key, value) ==
    [kind |-> "Where",
     attribute |-> [fn |-> "json_array_length",
                    args |-> <<[col |-> "data"],
                               [literal |-> <<"\"", "$", ".">> \o key \o <<"\"">>]>>],
     logic |-> value]

(* the outcome of rewrite: the object r it returns and the specialCases   *)
(* array as it has left it                                                 *)
Rewritten(r, sc) == [kind |-> "ok", value |-> r, specialCases |-> sc]

RECURSIVE rewrite(_, _)
RECURSIVE rewriteFrom(_, _, _, _)
RECURSIVE rewriteElements(_, _, _, _)

(* rewrite, line 187: value.map((u) => rewrite(u, specialCases)), from     *)
(* element i on, out being the elements mapped so far                      *)
rewriteElements(items, i, out, specialCases) ==
    IF i > Len(items) THEN Rewritten(Arr(out), specialCases)
    ELSE LET u == rewrite(items[i], specialCases)
         IN  IF u.kind = "throw" THEN u
             ELSE rewriteElements(items, i + 1, Append(out, u.value), u.specialCases)

(* rewriteFrom leaving out a length predicate that is in the list already *)
rewriteFrom_Deduplicating(entries, i, r, specialCases) ==
    IF i > Len(entries) THEN Rewritten(Obj(r), specialCases)
    ELSE
        LET key == entries[i].key.chars
            newKey == getSequelizeOperator(key)
            value == entries[i].value
        IN  IF newKey.kind = "throw" THEN newKey
            ELSE IF value.kind = "object" THEN
                LET ks == OwnEntries(value) IN
                IF \E j \in 1..Len(ks) : ks[j].key.chars = OP_SIZE
                THEN LET j == CHOOSE j \in 1..Len(ks) : ks[j].key.chars = OP_SIZE
                         c == SizeConstraint(key, ks[j].value)
                     IN  rewriteFrom(entries, i + 1, r,
                                     IF \E n \in 1..Len(specialCases) : specialCases[n] = c
                                     THEN specialCases ELSE Append(specialCases, c))
                ELSE LET sub == rewrite(value, specialCases)
                     IN  IF sub.kind = "throw" THEN sub
                         ELSE rewriteFrom(entries, i + 1,
                                          SetProp(r, newKey.value, sub.value),
                                          sub.specialCases)
            ELSE IF value.kind = "array" THEN
                LET sub == rewriteElements(value.items, 1, <<>>, specialCases)
                IN  IF sub.kind = "throw" THEN sub
                    ELSE rewriteFrom(entries, i + 1,
                                     SetProp(r, newKey.value, sub.value), sub.specialCases)
            ELSE rewriteFrom(entries, i + 1, SetProp(r, newKey.value, value), specialCases)

(* rewriteFrom building the JSON path of the length predicate from the     *)
(* rewritten key                                                           *)
rewriteFrom_RewrittenPath(entries, i, r, specialCases) ==
    IF i > Len(entries) THEN Rewritten(Obj(r), specialCases)
    ELSE
        LET key == entries[i].key.chars
            newKey == getSequelizeOperator(key)
            value == entries[i].value
        IN  IF newKey.kind = "throw" THEN newKey
            ELSE IF value.kind = "object" THEN
                LET ks == OwnEntries(value) IN
                IF \E j \in 1..Len(ks) : ks[j].key.chars = OP_SIZE
                THEN LET j == CHOOSE j \in 1..Len(ks) : ks[j].key.chars = OP_SIZE
                     IN  rewriteFrom(entries, i + 1, r,
                                     Append(specialCases,
                                            SizeConstraint(IF newKey.value.kind = "string"
                                                           THEN newKey.value.chars ELSE key,
                                                           ks[j].value)))
                ELSE LET sub == rewrite(value, specialCases)
                     IN  IF sub.kind = "throw" THEN sub
                         ELSE rewriteFrom(entries, i + 1,
                                          SetProp(r, newKey.value, sub.value),
                                          sub.specialCases)
            ELSE IF value.kind = "array" THEN
                LET sub == rewriteElements(value.items, 1, <<>>, specialCases)
                IN  IF sub.kind = "throw" THEN sub
                    ELSE rewriteFrom(entries, i + 1,
                                     SetProp(r, newKey.value, sub.value), sub.specialCases)
            ELSE rewriteFrom(entries, i + 1, SetProp(r, newKey.value, value), specialCases)

(* rewrite, lines 169-191: the loop over the keys, from entry i on, r      *)
(* being the properties set so far                                         *)
rewriteFrom(entries, i, r, specialCases) ==
    IF i > Len(entries) THEN Rewritten(Obj(r), specialCases)
    ELSE
        LET key == entries[i].key.chars
            newKey == getSequelizeOperator(key)
            value == entries[i].value
        IN  IF newKey.kind = "throw" THEN newKey
            ELSE IF value.kind = "object" THEN
                LET ks == OwnEntries(value) IN
                IF \E j \in 1..Len(ks) : ks[j].key.chars = OP_SIZE
                THEN LET j == CHOOSE j \in 1..Len(ks) : ks[j].key.chars = OP_SIZE
                     IN  rewriteFrom(entries, i + 1, r,
                                     Append(specialCases, SizeConstraint(key, ks[j].value)))
                ELSE LET sub == rewrite(value, specialCases)
                     IN  IF sub.kind = "throw" THEN sub
                         ELSE rewriteFrom(entries, i + 1,
                                          SetProp(r, newKey.value, sub.value),
                                          sub.specialCases)
            ELSE IF value.kind = "array" THEN
                LET sub == rewriteElements(value.items, 1, <<>>, specialCases)
                IN  IF sub.kind = "throw" THEN sub
                    ELSE rewriteFrom(entries, i + 1,
                                     SetProp(r, newKey.value, sub.value), sub.specialCases)
            ELSE rewriteFrom(entries, i + 1, SetProp(r, newKey.value, value), specialCases)

rewrite(proj, specialCases) ==
    IF proj.kind \in {"null", "undefined"} THEN Throw("TypeError", NotAnObject)
    ELSE rewriteFrom(OwnEntries(proj), 1, <<>>, specialCases)

KEY_WHERE == <<"w", "h", "e", "r", "e">>

(* _.keys(p).length and Object.getOwnPropertySymbols(p).length *)
StringKeyCount(p) == Len(SelectSeq(p.props, LAMBDA e : e.key.kind = "string"))
SymbolKeyCount(p) == Len(SelectSeq(p.props, LAMBDA e : e.key.kind = "symbol"))

(* toSequelize looking only at the string keys of p in both branches *)
toSequelize_StringKeysOnly(proj) ==
    LET rw == rewrite(proj, <<>>) IN
    IF rw.kind = "throw" THEN rw
    ELSE
        LET p == rw.value
            specialCases == rw.specialCases
        IN  IF Len(specialCases) = 0 THEN
                IF StringKeyCount(p) = 0 THEN OkValue(Obj(<<>>))
                ELSE OkValue(Obj(<<Prop(Str(KEY_WHERE), p)>>))
            ELSE
                IF StringKeyCount(p) = 0
                THEN OkValue(Obj(<<Prop(Str(KEY_WHERE), Arr(specialCases))>>))
                ELSE OkValue(Obj(<<Prop(Str(KEY_WHERE), Arr(Append(specialCases, p)))>>))

toSequelize(proj) ==
    LET rw == rewrite(proj, <<>>) IN
    IF rw.kind = "throw" THEN rw
    ELSE
        LET p == rw.value
            specialCases == rw.specialCases
        IN  IF Len(specialCases) = 0 THEN
                IF StringKeyCount(p) = 0 /\ SymbolKeyCount(p) = 0 THEN OkValue(Obj(<<>>))
                ELSE OkValue(Obj(<<Prop(Str(KEY_WHERE), p)>>))
            ELSE
                IF StringKeyCount(p) = 0
                THEN OkValue(Obj(<<Prop(Str(KEY_WHERE), Arr(specialCases))>>))
                ELSE OkValue(Obj(<<Prop(Str(KEY_WHERE), Arr(Append(specialCases, p)))>>))

----------------------------------------------------------------------------
(* Inputs of toSQL *)

MaxArrayLen == 2   \* longest sequence operand
MaxParts == 2      \* most children of a generated container

RECURSIVE SeqsUpTo(_, _)
SeqsUpTo(S, n) ==
    IF n = 0 THEN {<<>>}
    ELSE LET shorter == SeqsUpTo(S, n - 1)
         IN  shorter \cup {Append(t, e) : t \in {u \in shorter : Len(u) = n - 1}, e \in S}

FIELD_X == <<"x">>
FIELD_LABELS == <<"l", "a", "b", "e", "l", "s">>
Fields == {FIELD_X, FIELD_LABELS}

ScalarOperands ==
    {Str(<<"R">>), Str(<<"a", "a">>), Str(<<"o", "'", "k">>), Str(<<>>),
     Num(12), Num(0), Num(0 - 3), Bool(TRUE), Bool(FALSE), Null}

Elements == {Num(1), Num(2), Str(<<"a">>), Str(<<"b">>), Arr(<<>>), Arr(<<Num(1)>>), Null}

ArrayOperands == {Arr(t) : t \in SeqsUpTo(Elements, MaxArrayLen)}

Operands == ScalarOperands \cup ArrayOperands

ReservedOperators ==
    {OP_EQ, OP_LT, OP_LTE, OP_GT, OP_GTE, OP_IN, OP_AND, OP_OR, OP_ALL, OP_SIZE,
     OP_STARTSWITH, OP_CONTAINS, OP_REGEX}

Operators == ReservedOperators \cup {OP_EQQ}

Leaf(op, f, v) == Node(op, f, v, TRUE, <<>>)

LeafR == Leaf(OP_EQ, FIELD_X, Str(<<"R">>))
LeafS == Leaf(OP_EQ, FIELD_X, Str(<<"S">>))
LeafLt == Leaf(OP_LT, FIELD_X, Num(45))
LeafBad == Leaf(OP_EQQ, FIELD_X, Num(1))
LeafBare == Node(OP_GT, FIELD_X, Num(8), FALSE, <<>>)
Leaves == {LeafR, LeafS, LeafLt, LeafBad, LeafBare}

(* predicate nodes: as the parser builds them (an empty parts list), with  *)
(* no parts attribute, and with a child                                    *)
Predicates ==
    {Node(op, f, v, pp[1], pp[2]) :
        op \in Operators, f \in Fields, v \in Operands,
        pp \in {<<TRUE, <<>> >>, <<FALSE, <<>> >>, <<TRUE, <<LeafS>> >>}}

ContainerOperators == {<<>>, OP_AND, OP_OR, OP_EQ, OP_EQQ}

Container(op, ps) == Node(op, <<>>, Undefined, TRUE, ps)

Containers1 ==
    {Container(op, ps) : op \in ContainerOperators, ps \in SeqsUpTo(Leaves, MaxParts)}
    \cup {Node(op, <<>>, Undefined, FALSE, <<>>) : op \in ContainerOperators}

Inner ==
    {LeafR, LeafLt,
     Container(OP_AND, <<LeafR, LeafS>>), Container(OP_OR, <<LeafR, LeafLt>>),
     Container(<<>>, <<LeafS>>), Container(OP_OR, <<>>)}

Containers2 ==
    {Container(op, ps) : op \in {<<>>, OP_AND, OP_OR}, ps \in SeqsUpTo(Inner, MaxParts)}

Containers3 ==
    {Container(<<>>, <<c>>) : c \in Containers2}

Trees == Predicates \cup Containers1 \cup Containers2 \cup Containers3

VARIABLE_U == <<"u">>
VARIABLE_W == <<"w">>
VariableArgs ==
    {[given |-> FALSE], [given |-> TRUE, name |-> VARIABLE_U],
     [given |-> TRUE, name |-> VARIABLE_W]}

(* the variable name a call renders with *)
VariableOf(arg) == IF arg.given THEN arg.name ELSE <<"n">>

----------------------------------------------------------------------------
(* The renderer as a state machine: one call of toSQL on a chosen input *)

InitSQL ==
    /\ node \in Trees
    /\ variableArg \in VariableArgs
    /\ rendered = NotCalled
    /\ projector = NoInput
    /\ translated = NotCalled
    /\ isInitialized = FALSE
    /\ N = <<>>
    /\ E = <<>>
    /\ reply = NotCalled
    /\ pending = {}
    /\ graphElement = NoInput
    /\ converted = NotCalled
    /\ Constructed(DefaultSchemaOptions)

CallToSQL ==
    /\ rendered = NotCalled
    /\ rendered' = toSQLCall(node, variableArg)
    /\ UNCHANGED <<node, variableArg, projector, translated, isInitialized, N, E, reply,
                 pending, graphElement, converted, adapterOptions, pc, connections, schema>>

NextSQL == CallToSQL

SpecSQL == InitSQL /\ [][NextSQL]_vars

----------------------------------------------------------------------------
(* Inputs of toSequelize *)

MaxKeys == 2    \* most keys of a generated multi-key filter
MaxList == 2    \* longest generated $and / $or list

KEY_A == <<"a">>
KEY_B == <<"b">>

(* a filter with one key *)
One(k, v) == Obj(<<Prop(Str(k), v)>>)

ConnectorKeywords ==
    {OP_EQ, OP_LT, OP_LTE, OP_GT, OP_GTE, OP_IN, OP_AND, OP_OR, OP_STARTSWITH, OP_CONTAINS}

Keywords == ConnectorKeywords \cup {OP_SIZE, OP_ALL, OP_REGEX, OP_EQQ}

FilterScalars == {Num(3), Num(4), Str(<<"c", ",", "v">>)}

(* the nested mappings of operator keyword -> operand *)
OperatorMappings ==
    {One(op, v) : op \in Keywords, v \in {Num(4), Arr(<<Num(1), Num(2)>>)}}
    \cup {Obj(<<Prop(Str(OP_SIZE), Num(4)), Prop(Str(OP_GT), Num(1))>>),
          Obj(<<Prop(Str(OP_GT), Num(1)), Prop(Str(OP_SIZE), Num(4))>>),
          Obj(<<Prop(Str(OP_GT), Num(1)), Prop(Str(OP_LT), Num(4))>>),
          One(KEY_B, Num(3)),
          One(KEY_B, One(OP_EQ, Num(4))),
          One(KEY_B, One(OP_SIZE, Num(4))),
          One(OP_IN, Arr(<<Str(<<"a", "b">>), Null>>))}

SingleKeyFilters ==
    {One(k, v) : k \in {KEY_A, KEY_ID, KEY_LABELS}, v \in FilterScalars \cup OperatorMappings}
    \cup {One(k, v) : k \in Keywords, v \in FilterScalars}

(* sequences of n distinct elements of S *)
RECURSIVE Arrangements(_, _)
Arrangements(S, n) ==
    IF n = 0 THEN {<<>>}
    ELSE {Append(t, e) : t \in Arrangements(S, n - 1), e \in S} 

Distinct(t) == \A i, j \in 1..Len(t) : i # j => t[i] # t[j]

SmallValues ==
    {Num(3), One(OP_SIZE, Num(4)), One(OP_EQ, Num(4)),
     Obj(<<Prop(Str(OP_SIZE), Num(3)), Prop(Str(OP_GT), Num(1))>>)}

MultiKeyFilters ==
    UNION {{Obj([i \in 1..n |-> Prop(Str(ks[i]), vs[i])]) :
                ks \in {t \in Arrangements({KEY_A, KEY_B, KEY_ID}, n) : Distinct(t)},
                vs \in Arrangements(SmallValues, n)} : n \in 2..MaxKeys}

ListElements ==
    {One(KEY_A, Num(3)), One(KEY_ID, Num(3)), One(KEY_B, One(OP_EQ, Num(4))),
     One(KEY_A, One(OP_SIZE, Num(4))), One(OP_SIZE, Num(4))}

Lists == {Arr(t) : t \in SeqsUpTo(ListElements, MaxList)}

ConnectiveFilters ==
    {One(op, l) : op \in {OP_AND, OP_OR}, l \in Lists}
    \cup {Obj(<<Prop(Str(k), v), Prop(Str(op), l)>>) :
            k \in {KEY_A}, v \in {Num(3), One(OP_SIZE, Num(4))}, op \in {OP_AND, OP_OR},
            l \in Lists}
    \cup {Obj(<<Prop(Str(op), l), Prop(Str(k), v)>>) :
            k \in {KEY_A}, v \in {Num(3), One(OP_SIZE, Num(4))}, op \in {OP_OR},
            l \in Lists}

Filters == {Obj(<<>>)} \cup SingleKeyFilters \cup MultiKeyFilters \cup ConnectiveFilters

----------------------------------------------------------------------------
(* The translator as a state machine: one call of toSequelize *)

InitSequelize ==
    /\ projector \in Filters
    /\ translated = NotCalled
    /\ node = NoInput
    /\ variableArg = NoInput
    /\ rendered = NotCalled
    /\ isInitialized = FALSE
    /\ N = <<>>
    /\ E = <<>>
    /\ reply = NotCalled
    /\ pending = {}
    /\ graphElement = NoInput
    /\ converted = NotCalled
    /\ Constructed(DefaultSchemaOptions)

CallToSequelize ==
    /\ translated = NotCalled
    /\ translated' = toSequelize(projector)
    /\ UNCHANGED <<projector, node, variableArg, rendered, isInitialized, N, E, reply,
                 pending, graphElement, converted, adapterOptions, pc, connections, schema>>

NextSequelize == CallToSequelize

SpecSequelize == InitSequelize /\ [][NextSequelize]_vars

----------------------------------------------------------------------------
(* sqlAdapter.ts: the store *)

(* a row of the Nodes table and a row of the Edges table; every field is a *)
(* JavaScript value                                                        *)
NodeRow(id, labels, data) == [id |-> id, labels |-> labels, data |-> data]
EdgeRow(id, sourceId, targetId, labels, data) ==
    [id |-> id, sourceId |-> sourceId, targetId |-> targetId, labels |-> labels, data |-> data]

KEY_SOURCEID == <<"s", "o", "u", "r", "c", "e", "I", "d">>
KEY_TARGETID == <<"t", "a", "r", "g", "e", "t", "I", "d">>
KEY_LIMIT == <<"l", "i", "m", "i", "t">>

(* labels.join(',') of an array of labels *)
JoinLabels(labels) ==
    IF labels.kind = "array"
    THEN Str(Join([i \in 1..Len(labels.items) |-> JoinElement(labels.items[i])], <<",">>))
    ELSE Str(<<>>)

nodeSpecsToRecord(specs) == NodeRow(specs.id, JoinLabels(specs.labels), specs.data)

(* String.prototype.split with a one-character separator *)
RECURSIVE Split(_, _)
Split(s, sep) ==
    IF \A i \in 1..Len(s) : s[i] # sep THEN <<s>>
    ELSE LET i == CHOOSE k \in 1..Len(s) : s[k] = sep /\ \A j \in 1..(k - 1) : s[j] # sep
         IN  <<SubSeq(s, 1, i - 1)>> \o Split(SubSeq(s, i + 1, Len(s)), sep)

Whitespace == {" ", "\t", "\n", "\r"}

(* (r.labels || '').split(',').filter((u) => u.toString().trim().length > 0) *)
SplitLabels(labels) ==
    LET text == IF labels.kind = "string" THEN labels.chars ELSE <<>>
        kept == SelectSeq(Split(text, ","), LAMBDA u : \E i \in 1..Len(u) : u[i] \notin Whitespace)
    IN  Arr([i \in 1..Len(kept) |-> Str(kept[i])])

(* _.assign(target, source): the own string keys of source, in order *)
RECURSIVE AssignEntries(_, _)
AssignEntries(target, entries) ==
    IF entries = <<>> THEN target
    ELSE AssignEntries(SetProp(target, Head(entries).key, Head(entries).value), Tail(entries))

Assign(target, source) == AssignEntries(target, OwnEntries(source))

dbRecordToNode(r) ==
    Obj(Assign(<<Prop(Str(KEY_ID), r.id), Prop(Str(KEY_LABELS), SplitLabels(r.labels))>>, r.data))

dbRecordToEdge(r) ==
    Obj(Assign(<<Prop(Str(KEY_ID), r.id),
                 Prop(Str(KEY_SOURCEID), r.sourceId),
                 Prop(Str(KEY_TARGETID), r.targetId),
                 Prop(Str(KEY_LABELS), SplitLabels(r.labels))>>, r.data))

(* the value of a property of an object, undefined when it has none *)
Get(props, k) ==
    IF \E i \in 1..Len(props) : props[i].key = k
    THEN props[CHOOSE i \in 1..Len(props) : props[i].key = k].value
    ELSE Undefined

(* delete u[k] *)
Delete(props, k) == SelectSeq(props, LAMBDA e : e.key # Str(k))

(* nodeToDbRecord: the record made of a node; the deletes act on the       *)
(* shallow copy _.clone makes, the node passed in keeps its members         *)
nodeToDbRecord(n) ==
    LET u == n.props
    IN  NodeRow(Get(u, Str(KEY_ID)),
                JoinLabels(Get(u, Str(KEY_LABELS))),
                Obj(Delete(Delete(u, KEY_ID), KEY_LABELS)))

(* edgeToDbRecord: the record made of an edge *)
edgeToDbRecord(e) ==
    LET u == e.props
    IN  EdgeRow(Get(u, Str(KEY_ID)),
                Get(u, Str(KEY_SOURCEID)),
                Get(u, Str(KEY_TARGETID)),
                JoinLabels(Get(u, Str(KEY_LABELS))),
                Obj(Delete(Delete(Delete(Delete(u, KEY_ID), KEY_LABELS), KEY_SOURCEID),
                           KEY_TARGETID)))

----------------------------------------------------------------------------
(* sqlAdapter.ts: the queries Sequelize runs for Model.findAll *)

IsPrefix(p, s) == Len(p) <= Len(s) /\ SubSeq(s, 1, Len(p)) = p

(* the value a where key addresses in a row: a column, or for 'data.k' the *)
(* JSON member k of the data column; SQL NULL when the member is missing    *)
Column(row, name) ==
    CASE name = KEY_ID -> row.id
      [] name = KEY_LABELS -> row.labels
      [] name = KEY_SOURCEID /\ "sourceId" \in DOMAIN row -> row.sourceId
      [] name = KEY_TARGETID /\ "targetId" \in DOMAIN row -> row.targetId
      [] IsPrefix(DataPrefix, name) /\ row.data.kind = "object" ->
            LET v == Get(row.data.props, Str(SubSeq(name, Len(DataPrefix) + 1, Len(name))))
            IN  IF v = Undefined THEN Null ELSE v
      [] OTHER -> Null

(* LIKE, which Op.startsWith and Op.substring become, does not tell the    *)
(* case of the letters A..Z apart in SQLite                                 *)
UpperCase == <<"A", "B", "C", "D", "E", "F", "G", "H", "I", "J", "K", "L", "M",
               "N", "O", "P", "Q", "R", "S", "T", "U", "V", "W", "X", "Y", "Z">>
LowerCase == <<"a", "b", "c", "d", "e", "f", "g", "h", "i", "j", "k", "l", "m",
               "n", "o", "p", "q", "r", "s", "t", "u", "v", "w", "x", "y", "z">>

FoldChar(c) ==
    IF \E i \in 1..Len(UpperCase) : UpperCase[i] = c
    THEN LowerCase[CHOOSE i \in 1..Len(UpperCase) : UpperCase[i] = c]
    ELSE c

Fold(s) == [i \in 1..Len(s) |-> FoldChar(s[i])]

(* one comparison of a column value x with an operand v; a comparison with *)
(* NULL is never true; the ordering is the one of numbers                   *)
Compare(op, x, v) ==
    CASE x.kind = "null" \/ v.kind = "null" -> FALSE
      [] op = "eq" -> x = v
      [] op = "in" -> v.kind = "array" /\ \E i \in 1..Len(v.items) : v.items[i] = x
      [] op \in {"lt", "lte", "gt", "gte"} /\ x.kind = "number" /\ v.kind = "number" ->
            (CASE op = "lt" -> x.num < v.num
               [] op = "lte" -> x.num <= v.num
               [] op = "gt" -> x.num > v.num
               [] op = "gte" -> x.num >= v.num)
      [] op = "startsWith" /\ x.kind = "string" /\ v.kind = "string" ->
            IsPrefix(Fold(v.chars), Fold(x.chars))
      [] op = "substring" /\ x.kind = "string" /\ v.kind = "string" ->
            \E i \in 1..(Len(x.chars) - Len(v.chars) + 1) :
                SubSeq(Fold(x.chars), i, i + Len(v.chars) - 1) = Fold(v.chars)
      [] OTHER -> FALSE

(* the condition a where key carries: a value to equal, or a mapping of    *)
(* operator symbols to operands, all of which must hold                     *)
ColumnMatches(x, cond) ==
    IF cond.kind = "object"
    THEN \A i \in 1..Len(cond.props) :
            /\ cond.props[i].key.kind = "symbol"
            /\ Compare(cond.props[i].key.op, x, cond.props[i].value)
    ELSE Compare("eq", x, cond)

(* json_array_length(data, "$.k") = value *)
ArrayLengthMatches(c, row) ==
    LET literal == c.attribute.args[2].literal
        x == Column(row, DataPrefix \o SubSeq(literal, 4, Len(literal) - 1))
    IN  x.kind = "array" /\ c.logic = Num(Len(x.items))

(* a row satisfies a where clause: a mapping (all keys hold; Op.and and    *)
(* Op.or over their lists), a sequence (all elements hold) or a standalone *)
(* length predicate                                                         *)
RECURSIVE RowMatches(_, _)
RowMatches(w, row) ==
    CASE w.kind = "object" ->
            \A i \in 1..Len(w.props) :
                LET k == w.props[i].key
                    v == w.props[i].value
                IN  IF k.kind = "symbol"
                    THEN CASE k.op = "and" /\ v.kind = "array" ->
                                  \A j \in 1..Len(v.items) : RowMatches(v.items[j], row)
                           [] k.op = "or" /\ v.kind = "array" ->
                                  \E j \in 1..Len(v.items) : RowMatches(v.items[j], row)
                           [] OTHER -> FALSE
                    ELSE ColumnMatches(Column(row, k.chars), v)
      [] w.kind = "array" -> \A j \in 1..Len(w.items) : RowMatches(w.items[j], row)
      [] w.kind = "Where" -> ArrayLengthMatches(w, row)
      [] OTHER -> FALSE

(* the order-preserving selections of n elements of a sequence *)
RECURSIVE Selections(_, _)
Selections(s, n) ==
    IF n = 0 THEN {<<>>}
    ELSE IF Len(s) < n THEN {}
    ELSE {<<Head(s)>> \o t : t \in Selections(Tail(s), n - 1)} \cup Selections(Tail(s), n)

Min(a, b) == IF a <= b THEN a ELSE b

(* Model.findAll(options): the rows that satisfy options.where, all of     *)
(* them or, with options.limit, that many of them; without ORDER BY the    *)
(* database is free in which of the matching rows it returns, so the       *)
(* outcomes are a set                                                       *)
findAll(rows, options) ==
    LET where == Get(options.props, Str(KEY_WHERE))
        limit == Get(options.props, Str(KEY_LIMIT))
        found == SelectSeq(rows, LAMBDA r : where = Undefined \/ RowMatches(where, r))
    IN  IF limit.kind = "number"
        THEN Selections(found, Min(limit.num, Len(found)))
        ELSE {found}

(* Model.findOne({where: {id}}) != null *)
nodeExists(id) == \E i \in 1..Len(N) : N[i].id = id
edgeExists(id) == \E i \in 1..Len(E) : E[i].id = id
----------------------------------------------------------------------------
(* sqlAdapter.ts: the API handlers *)

(* done(error, args, value), and a rejection of the promise the handler    *)
(* returns (a throw outside its try blocks)                                 *)
Done(err, args, value) == [kind |-> "done", error |-> err, args |-> args, value |-> value]
Rejected(message) == [kind |-> "rejected", error |-> "Error", message |-> message]

(* what a call leaves behind: the descriptor it handed to findAll, if it   *)
(* got that far, and how it ended                                           *)
Answer(query, outcome) == [query |-> query, outcome |-> outcome]

Function == [kind |-> "function"]

isNil(v) == v.kind \in {"null", "undefined"}
isFunction(v) == v.kind = "function"
isPlainObject(v) == v.kind = "object"

defaultNodeLabel == <<"T", "h", "i", "n", "g">>
defaultEdgeLabel == <<"R", "e", "l", "a", "t", "e", "d", "T", "o">>

DefaultAmount == 1000

NilPredicateMessage == <<"N", "i", "l", " ", "p", "r", "e", "d", "i", "c", "a", "t", "e", " ", "f", "o", "r", " ", "g", "e", "t", "N", "o", "d", "e", "s", ".">>
GetNodesFunctionMessage == <<"g", "e", "t", "N", "o", "d", "e", "s", " ", "w", "i", "t", "h", " ", "a", " ", "f", "u", "n", "c", "t", "i", "o", "n", " ", "i", "s", " ", "n", "o", "t", " ", "s", "u", "p", "p", "o", "r", "t", "e", "d", " ", "b", "y", " ", "t", "h", "e", " ", "S", "q", "l", "i", "t", "e", " ", "a", "d", "a", "p", "t", "e", "r", ".", " ", "P", "l", "e", "a", "s", "e", " ", "u", "s", "e", " ", "M", "o", "n", "g", "o", "-", "l", "i", "k", "e", " ", "p", "r", "o", "j", "e", "c", "t", "i", "o", "n", "s", " ", "i", "n", "s", "t", "e", "a", "d", " ", "(", "h", "t", "t", "p", "s", ":", "/", "/", "w", "w", "w", ".", "m", "o", "n", "g", "o", "d", "b", ".", "c", "o", "m", "/", "d", "o", "c", "s", "/", "m", "a", "n", "u", "a", "l", "/", "r", "e", "f", "e", "r", "e", "n", "c", "e", "/", "o", "p", "e", "r", "a", "t", "o", "r", "/", "q", "u", "e", "r", "y", "/", ")", ".">>
GetEdgesFunctionMessage == <<"g", "e", "t", "E", "d", "g", "e", "s", " ", "w", "i", "t", "h", " ", "a", " ", "p", "r", "e", "d", "i", "c", "a", "t", "e", " ", "i", "s", " ", "n", "o", "t", " ", "s", "u", "p", "p", "o", "r", "t", "e", "d", " ", "b", "y", " ", "t", "h", "e", " ", "N", "e", "o", "4", "j", " ", "a", "d", "a", "p", "t", "e", "r", ".", " ", "P", "l", "e", "a", "s", "e", " ", "u", "s", "e", " ", "M", "o", "n", "g", "o", "-", "l", "i", "k", "e", " ", "p", "r", "o", "j", "e", "c", "t", "i", "o", "n", "s", " ", "i", "n", "s", "t", "e", "a", "d", " ", "(", "h", "t", "t", "p", "s", ":", "/", "/", "w", "w", "w", ".", "m", "o", "n", "g", "o", "d", "b", ".", "c", "o", "m", "/", "d", "o", "c", "s", "/", "m", "a", "n", "u", "a", "l", "/", "r", "e", "f", "e", "r", "e", "n", "c", "e", "/", "o", "p", "e", "r", "a", "t", "o", "r", "/", "q", "u", "e", "r", "y", "/", ")", ".">>
MongoLikeMessage == <<"P", "l", "e", "a", "s", "e", " ", "u", "s", "e", " ", "a", " ", "M", "o", "n", "g", "o", "-", "l", "i", "k", "e", " ", "p", "r", "o", "j", "e", "c", "t", "i", "o", "n", "s", " ", "f", "o", "r", " ", "g", "e", "t", "N", "o", "d", "e", "s", ",", " ", "s", "e", "e", " ", "h", "t", "t", "p", "s", ":", "/", "/", "w", "w", "w", ".", "m", "o", "n", "g", "o", "d", "b", ".", "c", "o", "m", "/", "d", "o", "c", "s", "/", "m", "a", "n", "u", "a", "l", "/", "r", "e", "f", "e", "r", "e", "n", "c", "e", "/", "o", "p", "e", "r", "a", "t", "o", "r", "/", "q", "u", "e", "r", "y", "/", ".">>
ForeignKeyMessage == <<"S", "Q", "L", "I", "T", "E", "_", "C", "O", "N", "S", "T", "R", "A", "I", "N", "T", ":", " ", "F", "O", "R", "E", "I", "G", "N", " ", "K", "E", "Y", " ", "c", "o", "n", "s", "t", "r", "a", "i", "n", "t", " ", "f", "a", "i", "l", "e", "d">>

NodeExistsMessage(id) == <<"N", "o", "d", "e", " ", "w", "i", "t", "h", " ", "i", "d", " ", "'">> \o ToJSString(id) \o <<"'", " ", "e", "x", "i", "s", "t", "s", " ", "a", "l", "r", "e", "a", "d", "y", ".">>
EdgeExistsMessage(id) == <<"E", "d", "g", "e", " ", "w", "i", "t", "h", " ", "i", "d", " ", "'">> \o ToJSString(id) \o <<"'", " ", "e", "x", "i", "s", "t", "s", " ", "a", "l", "r", "e", "a", "d", "y", ".">>

(* setup(): the schema is created on the first call; the tables of the     *)
(* default in-memory database start empty                                   *)
setup == isInitialized' = TRUE

(* getNodes handing the descriptor to findAll as toSequelize returned it *)
getNodes_NoLimit(projection, amount) ==
    IF isNil(projection)
    THEN {Answer(NoInput, Done(Str(NilPredicateMessage), <<projection, amount>>, Null))}
    ELSE
        LET given == IF isNil(amount) THEN Num(DefaultAmount) ELSE amount IN
        IF isFunction(projection)
        THEN {Answer(NoInput, Done(Str(GetNodesFunctionMessage), <<projection>>, Null))}
        ELSE IF isPlainObject(projection)
        THEN
            LET t == toSequelize(projection) IN
            IF t.kind = "throw"
            THEN {Answer(NoInput, Done(Str(t.message), <<projection, given>>, Null))}
            ELSE
                LET sequelizeProjection == t.value IN
                {Answer(sequelizeProjection,
                        IF records # <<>>
                        THEN Done(Null, <<projection>>,
                                  Arr([i \in 1..Len(records) |-> dbRecordToNode(records[i])]))
                        ELSE Done(Null, <<projection, given>>, Arr(<<>>)))
                    : records \in findAll(N, sequelizeProjection)}
        ELSE {Answer(NoInput, Done(Str(MongoLikeMessage), <<projection, given>>, Null))}

(* getNodes: the possible outcomes of getNodes(done)([projection, amount]) *)
(* on the current Nodes table                                               *)
getNodes(projection, amount) ==
    IF isNil(projection)
    THEN {Answer(NoInput, Done(Str(NilPredicateMessage), <<projection, amount>>, Null))}
    ELSE
        LET given == IF isNil(amount) THEN Num(DefaultAmount) ELSE amount IN
        IF isFunction(projection)
        THEN {Answer(NoInput, Done(Str(GetNodesFunctionMessage), <<projection>>, Null))}
        ELSE IF isPlainObject(projection)
        THEN
            LET t == toSequelize(projection) IN
            IF t.kind = "throw"
            THEN {Answer(NoInput, Done(Str(t.message), <<projection, given>>, Null))}
            ELSE
                LET sequelizeProjection == Obj(SetProp(t.value.props, Str(KEY_LIMIT), given)) IN
                {Answer(sequelizeProjection,
                        IF records # <<>>
                        THEN Done(Null, <<projection>>,
                                  Arr([i \in 1..Len(records) |-> dbRecordToNode(records[i])]))
                        ELSE Done(Null, <<projection, given>>, Arr(<<>>)))
                    : records \in findAll(N, sequelizeProjection)}
        ELSE {Answer(NoInput, Done(Str(MongoLikeMessage), <<projection, given>>, Null))}

(* getEdges: the possible outcomes of getEdges(done)([projection, amount]) *)
(* on the current Edges table; amount is not read                           *)
getEdges(projection, amount) ==
    IF isFunction(projection)
    THEN {Answer(NoInput, Done(Str(GetEdgesFunctionMessage), <<projection>>, Null))}
    ELSE IF isPlainObject(projection)
    THEN
        LET t == toSequelize(projection) IN
        IF t.kind = "throw"
        THEN {Answer(NoInput, Done(Str(t.message), <<projection>>, Null))}
        ELSE
            LET sequelizeProjection == t.value IN
            {Answer(sequelizeProjection,
                    IF r # <<>>
                    THEN Done(Null, <<projection>>,
                              Arr([i \in 1..Len(r) |-> dbRecordToEdge(r[i])]))
                    ELSE Done(Null, <<projection>>, Arr(<<>>)))
                : r \in findAll(E, sequelizeProjection)}
    ELSE {Answer(NoInput, Done(Str(MongoLikeMessage), <<projection>>, Null))}

(* Model.findOne(options): one of the rows that satisfy options.where (of  *)
(* all rows when options has no where), null when there is none; without   *)
(* ORDER BY the database is free in which row it returns                    *)
findOne(rows, options) ==
    LET where == Get(options.props, Str(KEY_WHERE))
        found == SelectSeq(rows, LAMBDA r : where = Undefined \/ RowMatches(where, r))
    IN  IF found = <<>> THEN {Null} ELSE {found[i] : i \in 1..Len(found)}

(* instance.destroy(): DELETE ... WHERE id = <the key of the instance> *)
Destroyed(rows, item) == SelectSeq(rows, LAMBDA r : r.id # item.id)

(* an edge references the node: the foreign keys of sqlSchema.ts, declared *)
(* on columns that are not nullable, let Sequelize use ON DELETE NO ACTION, *)
(* so the database refuses to delete such a node                            *)
Referenced(id) == \E i \in 1..Len(E) : E[i].sourceId = id \/ E[i].targetId = id

isString(v) == v.kind = "string"

DeleteEdgeFunctionMessage == <<"d", "e", "l", "e", "t", "e", "E", "d", "g", "e", " ", "w", "i", "t", "h", " ", "a", " ", "p", "r", "e", "d", "i", "c", "a", "t", "e", " ", "i", "s", " ", "n", "o", "t", " ", "s", "u", "p", "p", "o", "r", "t", "e", "d", " ", "b", "y", " ", "t", "h", "e", " ", "N", "e", "o", "4", "j", " ", "a", "d", "a", "p", "t", "e", "r", ".", " ", "P", "l", "e", "a", "s", "e", " ", "u", "s", "e", " ", "M", "o", "n", "g", "o", "-", "l", "i", "k", "e", " ", "p", "r", "o", "j", "e", "c", "t", "i", "o", "n", "s", " ", "i", "n", "s", "t", "e", "a", "d", " ", "(", "h", "t", "t", "p", "s", ":", "/", "/", "w", "w", "w", ".", "m", "o", "n", "g", "o", "d", "b", ".", "c", "o", "m", "/", "d", "o", "c", "s", "/", "m", "a", "n", "u", "a", "l", "/", "r", "e", "f", "e", "r", "e", "n", "c", "e", "/", "o", "p", "e", "r", "a", "t", "o", "r", "/", "q", "u", "e", "r", "y", "/", ")", ".">>
DeleteNodeFunctionMessage == <<"d", "e", "l", "e", "t", "e", "N", "o", "d", "e", " ", "w", "i", "t", "h", " ", "a", " ", "p", "r", "e", "d", "i", "c", "a", "t", "e", " ", "i", "s", " ", "n", "o", "t", " ", "s", "u", "p", "p", "o", "r", "t", "e", "d", " ", "b", "y", " ", "t", "h", "e", " ", "S", "q", "l", "i", "t", "e", " ", "a", "d", "a", "p", "t", "e", "r", ".", " ", "P", "l", "e", "a", "s", "e", " ", "u", "s", "e", " ", "M", "o", "n", "g", "o", "-", "l", "i", "k", "e", " ", "p", "r", "o", "j", "e", "c", "t", "i", "o", "n", "s", " ", "i", "n", "s", "t", "e", "a", "d", " ", "(", "h", "t", "t", "p", "s", ":", "/", "/", "w", "w", "w", ".", "m", "o", "n", "g", "o", "d", "b", ".", "c", "o", "m", "/", "d", "o", "c", "s", "/", "m", "a", "n", "u", "a", "l", "/", "r", "e", "f", "e", "r", "e", "n", "c", "e", "/", "o", "p", "e", "r", "a", "t", "o", "r", "/", "q", "u", "e", "r", "y", "/", ")", ".">>
ProjectionNotDefinedMessage == <<"p", "r", "o", "j", "e", "c", "t", "i", "o", "n", " ", "i", "s", " ", "n", "o", "t", " ", "d", "e", "f", "i", "n", "e", "d">>

(* what a call that changes a table leaves behind: its answer and the rows *)
(* of the table                                                             *)
Effect(answer, rows) == [answer |-> answer, rows |-> rows]

(* deleteEdge: the possible outcomes of deleteEdge(done)([id]) on the      *)
(* current Edges table; a string id becomes the descriptor {id}, which has  *)
(* no where                                                                 *)
deleteEdge(id) ==
    LET failed(message) == {Effect(Answer(NoInput, Done(Str(message), <<id>>, Null)), E)}
        run(sequelizeProjection) ==
            {Effect(Answer(sequelizeProjection, Done(Null, <<id>>, Arr(<<>>))),
                    IF item = Null THEN E ELSE Destroyed(E, item))
                : item \in findOne(E, sequelizeProjection)}
    IN  IF isString(id) THEN run(Obj(<<Prop(Str(KEY_ID), id)>>))
        ELSE IF isFunction(id) THEN failed(DeleteEdgeFunctionMessage)
        ELSE IF isPlainObject(id)
        THEN LET t == toSequelize(id) IN
             IF t.kind = "throw" THEN failed(t.message) ELSE run(t.value)
        ELSE failed(MongoLikeMessage)

(* deleteNode: the possible outcomes of deleteNode(done)([id]) on the      *)
(* current Nodes table: the answer and the ids of the instances whose       *)
(* destroy() it started; done is called without awaiting the destroy, so    *)
(* the table is as it was when the call completes; a plain object reads the *)
(* undeclared name projection                                               *)
deleteNode(id) ==
    LET failed(message) ==
            {[answer |-> Answer(NoInput, Done(Str(message), <<id>>, Null)), started |-> {}]}
    IN  IF isString(id)
        THEN LET sequelizeProjection == Obj(<<Prop(Str(KEY_WHERE), Obj(<<Prop(Str(KEY_ID), id)>>))>>) IN
             {[answer |-> Answer(sequelizeProjection, Done(Null, <<id>>, Arr(<<>>))),
               started |-> IF found = Null THEN {} ELSE {found.id}]
                : found \in findOne(N, sequelizeProjection)}
        ELSE IF isFunction(id) THEN failed(DeleteNodeFunctionMessage)
        ELSE IF isPlainObject(id) THEN failed(ProjectionNotDefinedMessage)
        ELSE failed(MongoLikeMessage)

(* the loop leaving after its first item *)
destroyInTurn_Once(rows, items) ==
    IF items = <<>> THEN [rows |-> rows, refused |-> FALSE]
    ELSE IF Referenced(Head(items).id) THEN [rows |-> rows, refused |-> TRUE]
    ELSE [rows |-> Destroyed(rows, Head(items)), refused |-> FALSE]

(* for (const item of items) await item.destroy(): the rows left when the  *)
(* items are destroyed in turn up to the first one the database refuses,    *)
(* and whether one was refused                                              *)
RECURSIVE destroyInTurn(_, _)
destroyInTurn(rows, items) ==
    IF items = <<>> THEN [rows |-> rows, refused |-> FALSE]
    ELSE IF Referenced(Head(items).id) THEN [rows |-> rows, refused |-> TRUE]
    ELSE destroyInTurn(Destroyed(rows, Head(items)), Tail(items))

(* deleteNodes: the possible outcomes of deleteNodes(done)([projection])   *)
(* on the current Nodes table                                               *)
deleteNodes(projection) ==
    LET failed(message) == {Effect(Answer(NoInput, Done(Str(message), <<projection>>, Null)), N)}
    IN  IF isFunction(projection) THEN failed(GetEdgesFunctionMessage)
        ELSE IF isPlainObject(projection)
        THEN LET t == toSequelize(projection) IN
             IF t.kind = "throw" THEN failed(t.message)
             ELSE {LET d == destroyInTurn(N, items) IN
                   Effect(Answer(t.value,
                                 IF d.refused
                                 THEN Done(Str(ForeignKeyMessage), <<projection>>, Null)
                                 ELSE Done(Null, <<projection>>, Arr(<<>>))),
                          d.rows)
                      : items \in findAll(N, t.value)}
        ELSE failed(MongoLikeMessage)

NullSpecsMessage == <<"C", "a", "n", "n", "o", "t", " ", "r", "e", "a", "d", " ", "p", "r", "o", "p", "e", "r", "t", "i", "e", "s", " ", "o", "f", " ", "n", "u", "l", "l", " ", "(", "r", "e", "a", "d", "i", "n", "g", " ", "'", "i", "n", "s", "u", "f", "f", "i", "c", "i", "e", "n", "t", "E", "d", "g", "e", "S", "p", "e", "c", "s", "'", ")">>
NotNullMessage(column) == <<"n", "o", "t", "N", "u", "l", "l", " ", "V", "i", "o", "l", "a", "t", "i", "o", "n", ":", " ", "E", "d", "g", "e", ".">> \o column \o <<" ", "c", "a", "n", "n", "o", "t", " ", "b", "e", " ", "n", "u", "l", "l">>

(* createNode storing the given specs also when the id is taken *)
createNode_Overwriting(given) ==
    LET args == <<given.data, given.id, given.labels>>
        specs == IF given.labels.items = <<>>
                 THEN [given EXCEPT !.labels = Arr(<<Str(defaultNodeLabel)>>)]
                 ELSE given
        n == nodeSpecsToRecord(specs)
    IN  {Effect(Answer(NoInput, Done(Null, args, n)),
                IF nodeExists(specs.id)
                THEN [i \in 1..Len(N) |-> IF N[i].id = specs.id THEN n ELSE N[i]]
                ELSE Append(N, n))}

(* createNode: the outcome of createNode(done)([data, id, labels]) on the  *)
(* current Nodes table, given being the specs Utils.getNodeSpecs made of    *)
(* the arguments                                                            *)
createNode(given) ==
    LET args == <<given.data, given.id, given.labels>>
        specs == IF given.labels.items = <<>>
                 THEN [given EXCEPT !.labels = Arr(<<Str(defaultNodeLabel)>>)]
                 ELSE given
        n == nodeSpecsToRecord(specs)
    IN  IF nodeExists(specs.id)
        THEN {Effect(Answer(NoInput, Rejected(NodeExistsMessage(specs.id))), N)}
        ELSE {Effect(Answer(NoInput, Done(Null, args, n)), Append(N, n))}

(* Utils.getEdgeSpecs(sourceId, targetId, data, id, labels) belongs to     *)
(* another package: for arguments with both endpoints it returns the specs, *)
(* for arguments that lack one it may return null or specs without it       *)
getEdgeSpecs(given) ==
    IF isNil(given.sourceId) \/ isNil(given.targetId) THEN {Null, given} ELSE {given}

(* createEdge handing every edge with two endpoint ids to the table *)
createEdge_NoForeignKeys(given) ==
    LET args == <<given.sourceId, given.targetId, given.data, given.id, given.labels>>
        specs == IF given.labels.items = <<>>
                 THEN [given EXCEPT !.labels = Arr(<<Str(defaultEdgeLabel)>>)]
                 ELSE given
        e == EdgeRow(specs.id, specs.sourceId, specs.targetId, JoinLabels(specs.labels), specs.data)
    IN  IF edgeExists(specs.id)
        THEN {Effect(Answer(NoInput, Rejected(EdgeExistsMessage(given.id))), E)}
        ELSE {Effect(Answer(NoInput, Done(Null, args, e)), Append(E, e))}

(* createEdge: the possible outcomes of                                    *)
(* createEdge(done)([sourceId, targetId, data, id, labels]) on the current  *)
(* tables; with null specs the handler reads a member of the local error,   *)
(* which is null; Edge.create validates that the endpoints are not null and *)
(* the database checks the foreign keys of sqlSchema.ts                     *)
createEdge(given) ==
    LET args == <<given.sourceId, given.targetId, given.data, given.id, given.labels>>
        failed(message) == Effect(Answer(NoInput, Done(Str(message), args, Null)), E)
        handled(specs0) ==
            IF specs0 = Null
            THEN Effect(Answer(NoInput, [Rejected(NullSpecsMessage) EXCEPT !.error = "TypeError"]), E)
            ELSE
                LET specs == IF specs0.labels.items = <<>>
                             THEN [specs0 EXCEPT !.labels = Arr(<<Str(defaultEdgeLabel)>>)]
                             ELSE specs0
                    e == EdgeRow(specs.id, specs.sourceId, specs.targetId,
                                 JoinLabels(specs.labels), specs.data)
                IN  IF edgeExists(specs.id)
                    THEN Effect(Answer(NoInput, Rejected(EdgeExistsMessage(given.id))), E)
                    ELSE IF isNil(specs.sourceId) THEN failed(NotNullMessage(KEY_SOURCEID))
                    ELSE IF isNil(specs.targetId) THEN failed(NotNullMessage(KEY_TARGETID))
                    ELSE IF nodeExists(specs.sourceId) /\ nodeExists(specs.targetId)
                    THEN Effect(Answer(NoInput, Done(Null, args, e)), Append(E, e))
                    ELSE failed(ForeignKeyMessage)
    IN  {handled(specs0) : specs0 \in getEdgeSpecs(given)}

(* {where: {labels: {[Op.substring]: label}}} *)
LabelDescriptor(label) ==
    Obj(<<Prop(Str(KEY_WHERE),
               Obj(<<Prop(Str(KEY_LABELS), Obj(<<Prop(Sym("substring"), label)>>))>>))>>)

(* getNodesWithLabel: the possible outcomes of                             *)
(* getNodesWithLabel(done)([label, amount = 1000]) on the current Nodes     *)
(* table; the default applies to an amount that is undefined                *)
getNodesWithLabel(label, amount) ==
    LET given == IF amount = Undefined THEN Num(DefaultAmount) ELSE amount
        options == Obj(SetProp(LabelDescriptor(label).props, Str(KEY_LIMIT), given))
    IN  {Answer(options,
                Done(Null, <<label, given>>,
                     Arr([i \in 1..Len(records) |-> dbRecordToNode(records[i])])))
            : records \in findAll(N, options)}

(* getEdgeWithLabel: the possible outcomes of                              *)
(* getEdgeWithLabel(done)([sourceId, targetId, label]) on the current Edges *)
(* table; the descriptor is made of the label alone                         *)
getEdgeWithLabel(sourceId, targetId, label) ==
    {Answer(LabelDescriptor(label),
            Done(Null, <<sourceId, targetId, label>>,
                 IF found = Null THEN Null ELSE dbRecordToEdge(found)))
        : found \in findOne(E, LabelDescriptor(label))}

ErrorsNotDefinedMessage == <<"e", "r", "r", "o", "r", "s", " ", "i", "s", " ", "n", "o", "t", " ", "d", "e", "f", "i", "n", "e", "d">>
EdgeDoesNotExistMessage(id) ==
    <<"E", "d", "g", "e", " ", "w", "i", "t", "h", " ", "i", "d", " ", "'">> \o ToJSString(id) \o <<"'", " ", "d", "o", "e", "s", " ", "n", "o", "t", " ", "e", "x", "i", "s", "t", " ", "a", "n", "d", " ", "c", "a", "n", " ", "n", "o", "t", " ", "b", "e", " ", "u", "p", "d", "a", "t", "e", "d", ".">>

(* UPDATE ... WHERE id = <the key of the instance>, what instance.save()   *)
(* runs for the changed fields                                              *)
Saved(rows, row) == [i \in 1..Len(rows) |-> IF rows[i].id = row.id THEN row ELSE rows[i]]

(* updateNode keeping the members of the stored payload that the update    *)
(* does not give                                                            *)
updateNode_Merging(given) ==
    LET args == <<given.data, given.id, given.labels>>
        data == SetProp(SetProp(given.data.props, Str(KEY_ID), given.id),
                        Str(KEY_LABELS), given.labels)
        old == N[CHOOSE i \in 1..Len(N) : N[i].id = given.id].data
        rec == nodeSpecsToRecord([given EXCEPT !.data = Obj(Assign(old.props, Obj(data)))])
    IN  IF ~nodeExists(given.id)
        THEN {Effect(Answer(NoInput, Done(Str(ErrorsNotDefinedMessage), args, Null)), N)}
        ELSE {Effect(Answer(NoInput, Done(Null, args, dbRecordToNode(rec))), Saved(N, rec))}

(* updateNode: the outcome of updateNode(done)([data, id, labels]) on the  *)
(* current Nodes table, given being the specs Utils.getNodeSpecs made of    *)
(* the arguments: the id and the labels are written into the payload, which *)
(* replaces the stored one; for a node that is not stored the handler reads *)
(* the undeclared name errors                                               *)
updateNode(given) ==
    LET args == <<given.data, given.id, given.labels>>
        data == SetProp(SetProp(given.data.props, Str(KEY_ID), given.id),
                        Str(KEY_LABELS), given.labels)
        rec == nodeSpecsToRecord([given EXCEPT !.data = Obj(data)])
    IN  IF ~nodeExists(given.id)
        THEN {Effect(Answer(NoInput, Done(Str(ErrorsNotDefinedMessage), args, Null)), N)}
        ELSE {Effect(Answer(NoInput, Done(Null, args, dbRecordToNode(rec))), Saved(N, rec))}

(* upsertNode: the outcome of upsertNode(done)([data, id, labels]) on the  *)
(* current Nodes table: updateNode when the id is stored, createNode       *)
(* otherwise, both with the done of the caller                              *)
upsertNode(given) ==
    IF nodeExists(given.id) THEN updateNode(given) ELSE createNode(given)

(* updateEdge: the outcome of updateEdge(done)([data, id, labels]) on the  *)
(* current tables, given being the specs Utils.getEdgeSpecs made of the     *)
(* arguments; save() meets the foreign keys like create                     *)
updateEdge(given) ==
    LET args == <<given.data, given.id, given.labels>>
        specs == IF given.labels.items = <<>>
                 THEN [given EXCEPT !.labels = Arr(<<Str(defaultEdgeLabel)>>)]
                 ELSE given
        newEdge == EdgeRow(specs.id, specs.sourceId, specs.targetId,
                           JoinLabels(specs.labels), specs.data)
    IN  IF ~edgeExists(specs.id)
        THEN {Effect(Answer(NoInput, Done(Str(EdgeDoesNotExistMessage(specs.id)), Undefined, Undefined)), E)}
        ELSE IF nodeExists(specs.sourceId) /\ nodeExists(specs.targetId)
        THEN {Effect(Answer(NoInput, Done(Null, args, newEdge)), Saved(E, newEdge))}
        ELSE {Effect(Answer(NoInput, Done(Str(ForeignKeyMessage), args, Null)), E)}

(* upsertEdge: the outcomes of upsertEdge(done)([data, id, labels]) on the *)
(* current tables: updateEdge when the id is stored, createEdge otherwise   *)
upsertEdge(given) ==
    IF edgeExists(given.id) THEN updateEdge(given) ELSE createEdge(given)

GetNodeFunctionMessage == <<"g", "e", "t", "N", "o", "d", "e", " ", "w", "i", "t", "h", " ", "a", " ", "p", "r", "e", "d", "i", "c", "a", "t", "e", " ", "i", "s", " ", "n", "o", "t", " ", "s", "u", "p", "p", "o", "r", "t", "e", "d", " ", "b", "y", " ", "t", "h", "e", " ", "S", "q", "l", "i", "t", "e", " ", "a", "d", "a", "p", "t", "e", "r", ".", " ", "P", "l", "e", "a", "s", "e", " ", "u", "s", "e", " ", "M", "o", "n", "g", "o", "-", "l", "i", "k", "e", " ", "p", "r", "o", "j", "e", "c", "t", "i", "o", "n", "s", " ", "i", "n", "s", "t", "e", "a", "d", " ", "(", "h", "t", "t", "p", "s", ":", "/", "/", "w", "w", "w", ".", "m", "o", "n", "g", "o", "d", "b", ".", "c", "o", "m", "/", "d", "o", "c", "s", "/", "m", "a", "n", "u", "a", "l", "/", "r", "e", "f", "e", "r", "e", "n", "c", "e", "/", "o", "p", "e", "r", "a", "t", "o", "r", "/", "q", "u", "e", "r", "y", "/", ")", ".">>

(* getNode: the possible outcomes of getNode(done)([id]) on the current    *)
(* Nodes table; an id that is no string, function or plain object leaves    *)
(* the descriptor empty                                                     *)
getNode(id) ==
    LET failed(message) == {Answer(NoInput, Done(Str(message), <<id>>, Null))}
        run(sequelizeProjection) ==
            {Answer(sequelizeProjection,
                    Done(Null, <<id>>, IF r = Null THEN Null ELSE dbRecordToNode(r)))
                : r \in findOne(N, sequelizeProjection)}
    IN  IF isString(id) THEN run(Obj(<<Prop(Str(KEY_WHERE), Obj(<<Prop(Str(KEY_ID), id)>>))>>))
        ELSE IF isFunction(id) THEN failed(GetNodeFunctionMessage)
        ELSE IF isPlainObject(id)
        THEN LET t == toSequelize(id) IN
             IF t.kind = "throw" THEN failed(t.message) ELSE run(t.value)
        ELSE run(Obj(<<>>))

UndefinedFindAllMessage == <<"C", "a", "n", "n", "o", "t", " ", "r", "e", "a", "d", " ", "p", "r", "o", "p", "e", "r", "t", "i", "e", "s", " ", "o", "f", " ", "u", "n", "d", "e", "f", "i", "n", "e", "d", " ", "(", "r", "e", "a", "d", "i", "n", "g", " ", "'", "f", "i", "n", "d", "A", "l", "l", "'", ")">>

(* getDownstreamEdges: the possible outcomes of                            *)
(* getDownstreamEdges(done)([sourceId, amount]) on the current Edges table; *)
(* the handler does not call setup, E is undefined until a setup has        *)
(* assigned it                                                              *)
getDownstreamEdges(sourceId, amount) ==
    LET given == IF isNil(amount) THEN Num(DefaultAmount) ELSE amount
        args == <<sourceId, given>>
        descriptor == Obj(<<Prop(Str(KEY_WHERE), Obj(<<Prop(Str(KEY_SOURCEID), sourceId)>>)),
                            Prop(Str(KEY_LIMIT), given)>>)
    IN  IF schema = 0
        THEN {Answer(NoInput, Done(Str(UndefinedFindAllMessage), args, Null))}
        ELSE {Answer(descriptor,
                     Done(Null, args, Arr([i \in 1..Len(r) |-> dbRecordToEdge(r[i])])))
                : r \in findAll(E, descriptor)}

(* _.includes(labels, label) *)
includes(items, x) == \E i \in 1..Len(items) : items[i] = x

(* the labels array of a graph element *)
Labels(element) == Get(element.props, Str(KEY_LABELS)).items

(* the rows findAll returns for a descriptor whose limit no table of the   *)
(* model reaches                                                            *)
Found(rows, descriptor) == CHOOSE r \in findAll(rows, descriptor) : TRUE

WithDefaultLimit(where) ==
    Obj(<<Prop(Str(KEY_WHERE), where), Prop(Str(KEY_LIMIT), Num(DefaultAmount))>>)

(* the local getNodeById(id) *)
getNodeById(id) ==
    LET r == SelectSeq(N, LAMBDA row : row.id = id)
    IN  IF r = <<>> THEN Null ELSE dbRecordToNode(r[1])

(* the local getNodesWithLabel(label), amount left at its default *)
getNodesWithLabel_Local(label) ==
    LET records == Found(N, WithDefaultLimit(Get(LabelDescriptor(label).props, Str(KEY_WHERE))))
    IN  [i \in 1..Len(records) |-> dbRecordToNode(records[i])]

(* the local getEdgesWithLabel(label), amount left at its default *)
getEdgesWithLabel(label) ==
    LET records == Found(E, WithDefaultLimit(Get(LabelDescriptor(label).props, Str(KEY_WHERE))))
    IN  [i \in 1..Len(records) |-> dbRecordToEdge(records[i])]

(* the local getDownstreamEdges(sourceId) *)
getDownstreamEdges_Local(sourceId) ==
    LET records == Found(E, WithDefaultLimit(Obj(<<Prop(Str(KEY_SOURCEID), sourceId)>>)))
    IN  [i \in 1..Len(records) |-> dbRecordToEdge(records[i])]

WILDCARD == Str(<<"*">>)

TargetOf(edge) == getNodeById(Get(edge.props, Str(KEY_TARGETID)))
SourceOf(edge) == getNodeById(Get(edge.props, Str(KEY_SOURCEID)))

(* getEdgesBetweenLabels(sourceLabel, targetLabel) *)
getEdgesBetweenLabels(sourceLabel, targetLabel) ==
    LET sourceNodes == getNodesWithLabel_Local(sourceLabel)
    IN  Concat([i \in 1..Len(sourceNodes) |->
                  SelectSeq(getDownstreamEdges_Local(Get(sourceNodes[i].props, Str(KEY_ID))),
                            LAMBDA edge : includes(Labels(TargetOf(edge)), targetLabel))])

(* getEdgesWithLabels(sourceLabel, edgeLabel, targetLabel) for labels that *)
(* are not empty                                                            *)
getEdgesWithLabels(sourceLabel, edgeLabel, targetLabel) ==
    IF edgeLabel = WILDCARD THEN getEdgesBetweenLabels(sourceLabel, targetLabel)
    ELSE SelectSeq(getEdgesWithLabel(edgeLabel),
                   LAMBDA edge :
                       /\ sourceLabel = WILDCARD \/ includes(Labels(SourceOf(edge)), sourceLabel)
                       /\ targetLabel = WILDCARD \/ includes(Labels(TargetOf(edge)), targetLabel))

(* a Graph of @orbifold/graphs: its nodes and its edges *)
GraphOf(nodes, edges) == [kind |-> "graph", nodes |-> nodes, edges |-> edges]

IdOf(element) == Get(element.props, Str(KEY_ID))

nodeIdExists(g, id) == \E i \in 1..Len(g.nodes) : IdOf(g.nodes[i]) = id

(* the body of the loop of mergeSegment for one edge *)
mergeEdge(g, edge) ==
    LET sourceId == Get(edge.props, Str(KEY_SOURCEID))
        targetId == Get(edge.props, Str(KEY_TARGETID))
        g1 == IF nodeIdExists(g, sourceId) THEN g
              ELSE [g EXCEPT !.nodes = Append(@, getNodeById(sourceId))]
        g2 == IF nodeIdExists(g1, targetId) THEN g1
              ELSE [g1 EXCEPT !.nodes = Append(@, getNodeById(targetId))]
    IN  IF \E i \in 1..Len(g2.edges) : IdOf(g2.edges[i]) = IdOf(edge) THEN g2
        ELSE [g2 EXCEPT !.edges = Append(@, edge)]

RECURSIVE mergeEdges(_, _)
mergeEdges(g, edges) ==
    IF edges = <<>> THEN g ELSE mergeEdges(mergeEdge(g, Head(edges)), Tail(edges))

(* mergeSegment: the nodes and edges fitting one triple of the path *)
mergeSegment(g, segment) ==
    mergeEdges(g, getEdgesWithLabels(segment[1], segment[2], segment[3]))

(* assembleRawGraph: the segments of the path merged in turn, from the     *)
(* i-th on                                                                  *)
RECURSIVE assembleRawGraph(_, _, _)
assembleRawGraph(g, path, i) ==
    IF 2 * i + 1 > Len(path) THEN g
    ELSE assembleRawGraph(mergeSegment(g, <<path[2 * i - 1], path[2 * i], path[2 * i + 1]>>),
                          path, i + 1)

(* traverse: the ids of the nodes on the walks of g that start at id and   *)
(* follow edges with the given labels to the end of the list               *)
RECURSIVE traverse(_, _, _)
traverse(g, id, edgeLabels) ==
    IF edgeLabels = <<>> THEN {id}
    ELSE LET edges == SelectSeq(g.edges,
                          LAMBDA e : /\ Get(e.props, Str(KEY_SOURCEID)) = id
                                     /\ \/ Head(edgeLabels) = WILDCARD
                                        \/ includes(Labels(e), Head(edgeLabels)))
             below == UNION {traverse(g, Get(edges[i].props, Str(KEY_TARGETID)), Tail(edgeLabels))
                                : i \in 1..Len(edges)}
         IN  IF below = {} THEN {} ELSE {id} \cup below

(* pruneRawGraph: the nodes no walk has tagged are removed, their edges    *)
(* with them                                                                *)
pruneRawGraph(g, path) ==
    LET edgeLabels == [i \in 1..((Len(path) - 1) \div 2) |-> path[2 * i]]
        tagged == UNION {traverse(g, IdOf(g.nodes[i]), edgeLabels) : i \in 1..Len(g.nodes)}
    IN  GraphOf(SelectSeq(g.nodes, LAMBDA n : IdOf(n) \in tagged),
                SelectSeq(g.edges, LAMBDA e : /\ Get(e.props, Str(KEY_SOURCEID)) \in tagged
                                              /\ Get(e.props, Str(KEY_TARGETID)) \in tagged))

OddLengthMessage == <<"A", " ", "p", "a", "t", "h", " ", "q", "u", "e", "r", "y", " ", "s", "h", "o", "u", "l", "d", " ", "h", "a", "v", "e", " ", "o", "d", "d", " ", "l", "e", "n", "g", "t", "h", ".">>
InvalidPathMessage == <<"I", "n", "v", "a", "l", "i", "d", " ", "p", "a", "t", "h", " ", "q", "u", "e", "r", "y", ".">>

(* pathQuery: the outcome of pathQuery(done)([path]) on the current tables *)
pathQuery(path) ==
    LET failed(message) == Answer(NoInput, Done(Str(message), <<>>, Null))
        found(g) == Answer(NoInput, Done(Null, <<path>>, g))
    IN  IF isNil(path) \/ path.items = <<>> THEN found(GraphOf(<<>>, <<>>))
        ELSE IF Len(path.items) % 2 = 0 THEN failed(OddLengthMessage)
        ELSE IF \E i \in 1..Len(path.items) : ~isString(path.items[i]) \/ path.items[i].chars = <<>>
        THEN failed(InvalidPathMessage)
        ELSE IF Len(path.items) = 1
        THEN found(GraphOf(getNodesWithLabel_Local(path.items[1]), <<>>))
        ELSE found(pruneRawGraph(assembleRawGraph(GraphOf(<<>>, <<>>), path.items, 1), path.items))

(* the entry an API call leaves in reply *)
Reply(call, args, answer) ==
    [call |-> call, args |-> args, query |-> answer.query, outcome |-> answer.outcome]

----------------------------------------------------------------------------
(* Inputs of the adapter *)

MaxAmount == 2

NODE_1 == <<"n", "1">>
NODE_2 == <<"n", "2">>
NODE_3 == <<"n", "3">>
EDGE_1 == <<"e", "1">>
EDGE_2 == <<"e", "2">>
LABEL_A == <<"A">>

EdgeIds == {EDGE_1, EDGE_2}

(* the payloads of the elements: the field a with one of two values *)
DataValues == {One(KEY_A, Num(3)), One(KEY_A, Num(4))}

(* the specs Utils.getNodeSpecs(data, id, labels) hands to createNode *)
NodeSpecs ==
    {[id |-> Str(NODE_1), labels |-> Arr(<<>>), data |-> d] : d \in DataValues}
    \cup {[id |-> Str(NODE_2), labels |-> Arr(<<Str(LABEL_A)>>), data |-> One(KEY_A, Num(3))],
          [id |-> Str(NODE_3), labels |-> Arr(<<>>), data |-> One(KEY_A, Num(4))]}

(* the specs Utils.getEdgeSpecs(sourceId, targetId, data, id, labels)      *)
(* hands to createEdge                                                      *)
Endpoints == {<<NODE_1, NODE_2>>, <<NODE_1, NODE_3>>}

EdgeSpecs ==
    {[id |-> Str(id), sourceId |-> Str(p[1]), targetId |-> Str(p[2]),
      labels |-> Arr(<<Str(LABEL_A)>>), data |-> One(KEY_A, Num(3))] : id \in EdgeIds, p \in Endpoints}

(* calls of createEdge that leave out an endpoint *)
EdgeSpecsWithout ==
    {[id |-> Str(EDGE_1), sourceId |-> Null, targetId |-> Str(NODE_2),
      labels |-> Arr(<<>>), data |-> One(KEY_A, Num(3))],
     [id |-> Str(EDGE_2), sourceId |-> Str(NODE_1), targetId |-> Undefined,
      labels |-> Arr(<<>>), data |-> One(KEY_A, Num(3))]}

Amounts == {Undefined} \cup {Num(k) : k \in 0..MaxAmount}

(* the filters that reach findAll: on the payload, on the id, and both *)
NodeFilters ==
    {Obj(<<>>),
     One(KEY_A, Num(3)),
     One(KEY_A, One(OP_GT, Num(3))),
     One(KEY_ID, Str(NODE_1)),
     One(OP_OR, Arr(<<One(KEY_A, Num(3)), One(KEY_ID, Str(NODE_2))>>))}

NodeProjections == NodeFilters \cup {Null, Function, Num(3), One(OP_SIZE, Num(4))}

EdgeFilters == {Obj(<<>>), One(KEY_ID, Str(EDGE_1))}

EdgeProjections == EdgeFilters \cup {Undefined, Function, One(OP_SIZE, Num(4))}

----------------------------------------------------------------------------
(* The adapter as a state machine: a client that awaits each API call *)

(* the variables of the compiler and of the record conversion *)
Elsewhere == UNCHANGED <<node, variableArg, rendered, projector, translated, graphElement, converted, adapterOptions, pc, connections, schema>>

InitAdapter ==
    /\ isInitialized = FALSE
    /\ N = <<>>
    /\ E = <<>>
    /\ reply = NotCalled
    /\ pending = {}
    /\ graphElement = NoInput
    /\ converted = NotCalled
    /\ Constructed(DefaultSchemaOptions)
    /\ node = NoInput
    /\ variableArg = NoInput
    /\ rendered = NotCalled
    /\ projector = NoInput
    /\ translated = NotCalled

(* createNode(done)([data, id, labels]) *)
CreateNode ==
    \E given \in NodeSpecs :
        \E effect \in createNode(given) :
            /\ setup
            /\ N' = effect.rows
            /\ reply' = Reply("createNode", <<given.data, given.id, given.labels>>, effect.answer)
            /\ UNCHANGED <<E, pending>>
            /\ Elsewhere

(* createEdge(done)([sourceId, targetId, data, id, labels]) *)
CreateEdge ==
    \E given \in EdgeSpecs \cup EdgeSpecsWithout :
        \E effect \in createEdge(given) :
            /\ setup
            /\ E' = effect.rows
            /\ reply' = Reply("createEdge",
                              <<given.sourceId, given.targetId, given.data, given.id, given.labels>>,
                              effect.answer)
            /\ UNCHANGED <<N, pending>>
            /\ Elsewhere

(* getNodes(done)([projection, amount]) *)
GetNodes ==
    \E projection \in NodeProjections, amount \in Amounts :
        \E answer \in getNodes(projection, amount) :
            /\ setup
            /\ reply' = Reply("getNodes", <<projection, amount>>, answer)
            /\ UNCHANGED <<N, E, pending, node, variableArg, rendered, projector, translated,
                         graphElement, converted, adapterOptions, pc, connections, schema>>

(* getEdges(done)([projection, amount]) *)
GetEdges ==
    \E projection \in EdgeProjections, amount \in Amounts :
        \E answer \in getEdges(projection, amount) :
            /\ setup
            /\ reply' = Reply("getEdges", <<projection, amount>>, answer)
            /\ UNCHANGED <<N, E, pending, node, variableArg, rendered, projector, translated,
                         graphElement, converted, adapterOptions, pc, connections, schema>>

NextAdapter == CreateNode \/ CreateEdge \/ GetNodes \/ GetEdges

SpecAdapter == InitAdapter /\ [][NextAdapter]_vars
----------------------------------------------------------------------------
(* The adapter with its delete operations; the destroy() that deleteNode   *)
(* starts and does not await runs as a step of its own                      *)

(* the ids and filters passed to the calls that take one *)
NodeIdArgs == {Str(NODE_1), Str(NODE_2), One(KEY_ID, Str(NODE_1)), Function, Num(3)}
EdgeIdArgs == {Str(EDGE_1), Str(EDGE_2), One(KEY_ID, Str(EDGE_2)), Function, Num(3)}
DeleteFilters == {Obj(<<>>), One(KEY_A, Num(3)), One(KEY_ID, Str(NODE_3))}
DeleteProjections == DeleteFilters \cup {Function, Null, One(OP_SIZE, Num(4))}

(* deleteEdge(done)([id]) *)
DeleteEdge ==
    \E id \in EdgeIdArgs :
        \E effect \in deleteEdge(id) :
            /\ setup
            /\ E' = effect.rows
            /\ reply' = Reply("deleteEdge", <<id>>, effect.answer)
            /\ UNCHANGED <<N, pending>>
            /\ Elsewhere

(* deleteNode(done)([id]) *)
DeleteNode ==
    \E id \in NodeIdArgs :
        \E outcome \in deleteNode(id) :
            /\ setup
            /\ pending' = pending \cup outcome.started
            /\ reply' = Reply("deleteNode", <<id>>, outcome.answer)
            /\ UNCHANGED <<N, E>>
            /\ Elsewhere

(* a destroy() started by deleteNode reaches the database: the row goes,   *)
(* unless an edge references it; then the promise nobody holds is rejected  *)
Destroy ==
    \E id \in pending :
        /\ pending' = pending \ {id}
        /\ N' = IF Referenced(id) THEN N ELSE SelectSeq(N, LAMBDA r : r.id # id)
        /\ UNCHANGED <<isInitialized, E, reply>>
        /\ Elsewhere

(* deleteNodes(done)([projection]) *)
DeleteNodes ==
    \E projection \in DeleteProjections :
        \E effect \in deleteNodes(projection) :
            /\ setup
            /\ N' = effect.rows
            /\ reply' = Reply("deleteNodes", <<projection>>, effect.answer)
            /\ UNCHANGED <<E, pending>>
            /\ Elsewhere

(* nodeExists(done)([id]) *)
NodeExists ==
    \E id \in {Str(NODE_1), Str(NODE_2), Str(NODE_3)} :
        /\ setup
        /\ reply' = Reply("nodeExists", <<id>>,
                          Answer(NoInput, Done(Null, <<id>>, Bool(nodeExists(id)))))
        /\ UNCHANGED <<N, E, pending>>
        /\ Elsewhere

(* edgeExists(done)([id]) *)
EdgeExists ==
    \E id \in {Str(EDGE_1), Str(EDGE_2)} :
        /\ setup
        /\ reply' = Reply("edgeExists", <<id>>,
                          Answer(NoInput, Done(Null, <<id>>, Bool(edgeExists(id)))))
        /\ UNCHANGED <<N, E, pending>>
        /\ Elsewhere

NextDelete ==
    \/ CreateNode \/ CreateEdge
    \/ DeleteEdge \/ DeleteNode \/ Destroy \/ DeleteNodes
    \/ NodeExists \/ EdgeExists

SpecDelete == InitAdapter /\ [][NextDelete]_vars
----------------------------------------------------------------------------
(* The adapter with its label queries *)

LABEL_LOWER_A == <<"a">>
LABEL_TH == <<"T", "h">>

LabelArgs == {Str(LABEL_A), Str(LABEL_LOWER_A), Str(LABEL_TH)}

EndpointArgs == Endpoints \cup {<<NODE_2, NODE_1>>}

(* getNodesWithLabel(done)([label, amount]) *)
GetNodesWithLabel ==
    \E label \in LabelArgs, amount \in Amounts :
        \E answer \in getNodesWithLabel(label, amount) :
            /\ setup
            /\ reply' = Reply("getNodesWithLabel", <<label, amount>>, answer)
            /\ UNCHANGED <<N, E, pending>>
            /\ Elsewhere

(* getEdgeWithLabel(done)([sourceId, targetId, label]) *)
GetEdgeWithLabel ==
    \E p \in EndpointArgs, label \in LabelArgs :
        \E answer \in getEdgeWithLabel(Str(p[1]), Str(p[2]), label) :
            /\ setup
            /\ reply' = Reply("getEdgeWithLabel", <<Str(p[1]), Str(p[2]), label>>, answer)
            /\ UNCHANGED <<N, E, pending>>
            /\ Elsewhere

NextLabels == CreateNode \/ CreateEdge \/ GetNodesWithLabel \/ GetEdgeWithLabel

SpecLabels == InitAdapter /\ [][NextLabels]_vars
----------------------------------------------------------------------------
(* The adapter with its update and upsert operations *)

KEY_B_ONLY == One(KEY_B, Num(3))

(* the specs Utils.getNodeSpecs hands to updateNode and upsertNode: a new  *)
(* payload for n1, which leaves out a, and one for n2                       *)
NodeUpdates ==
    {[id |-> Str(NODE_1), labels |-> Arr(<<>>), data |-> KEY_B_ONLY],
     [id |-> Str(NODE_2), labels |-> Arr(<<Str(LABEL_A)>>), data |-> One(KEY_A, Num(4))]}

(* the specs Utils.getEdgeSpecs hands to upsertEdge *)
EdgeUpdates ==
    {[id |-> Str(EDGE_1), sourceId |-> Str(NODE_1), targetId |-> Str(NODE_2),
      labels |-> Arr(<<>>), data |-> KEY_B_ONLY],
     [id |-> Str(EDGE_2), sourceId |-> Str(NODE_1), targetId |-> Str(NODE_3),
      labels |-> Arr(<<Str(LABEL_A)>>), data |-> One(KEY_A, Num(4))]}

(* updateNode(done)([data, id, labels]) *)
UpdateNode ==
    \E given \in NodeUpdates :
        \E effect \in updateNode(given) :
            /\ setup
            /\ N' = effect.rows
            /\ reply' = Reply("updateNode", <<given.data, given.id, given.labels>>, effect.answer)
            /\ UNCHANGED <<E, pending>>
            /\ Elsewhere

(* upsertNode(done)([data, id, labels]) *)
UpsertNode ==
    \E given \in NodeUpdates :
        \E effect \in upsertNode(given) :
            /\ setup
            /\ N' = effect.rows
            /\ reply' = Reply("upsertNode", <<given.data, given.id, given.labels>>, effect.answer)
            /\ UNCHANGED <<E, pending>>
            /\ Elsewhere

(* upsertEdge(done)([data, id, labels]) *)
UpsertEdge ==
    \E given \in EdgeUpdates :
        \E effect \in upsertEdge(given) :
            /\ setup
            /\ E' = effect.rows
            /\ reply' = Reply("upsertEdge", <<given, given.id, given.labels>>, effect.answer)
            /\ UNCHANGED <<N, pending>>
            /\ Elsewhere

(* getNode(done)([id]) *)
GetNode ==
    \E id \in NodeIdArgs :
        \E answer \in getNode(id) :
            /\ setup
            /\ reply' = Reply("getNode", <<id>>, answer)
            /\ UNCHANGED <<N, E, pending>>
            /\ Elsewhere

NextUpdate == CreateNode \/ UpdateNode \/ GetNode

SpecUpdate == InitAdapter /\ [][NextUpdate]_vars

NextUpsert ==
    \/ UpsertNode \/ UpsertEdge
    \/ DeleteNode \/ Destroy \/ DeleteEdge

SpecUpsert == InitAdapter /\ [][NextUpsert]_vars
----------------------------------------------------------------------------
(* The record conversion on graph elements *)

MaxLabels == 2

(* label texts: plain ones, one with the separator in it, a blank one *)
LabelTexts == {<<"a">>, <<"b">>, <<"a", ",", "b">>, <<" ">>}

RECURSIVE LabelLists(_)
LabelLists(n) ==
    IF n = 0 THEN {<<>>}
    ELSE LET shorter == LabelLists(n - 1)
         IN  shorter \cup {Append(l, Str(t)) : l \in shorter, t \in LabelTexts}

(* the further properties of an element *)
FurtherProps ==
    {<<>>, <<Prop(Str(KEY_A), Num(3))>>, <<Prop(Str(KEY_B), Str(<<"x">>))>>,
     <<Prop(Str(KEY_A), Num(3)), Prop(Str(KEY_B), Str(<<"x">>))>>}

GraphNodes ==
    {Obj(<<Prop(Str(KEY_ID), Str(NODE_1)), Prop(Str(KEY_LABELS), Arr(l))>> \o p)
        : l \in LabelLists(MaxLabels), p \in FurtherProps}

GraphEdges ==
    {Obj(<<Prop(Str(KEY_ID), Str(EDGE_1)),
           Prop(Str(KEY_SOURCEID), Str(NODE_1)),
           Prop(Str(KEY_TARGETID), Str(NODE_2)),
           Prop(Str(KEY_LABELS), Arr(l))>> \o p)
        : l \in LabelLists(MaxLabels), p \in FurtherProps}

InitRecords ==
    /\ graphElement \in GraphNodes \cup GraphEdges
    /\ converted = NotCalled
    /\ Constructed(DefaultSchemaOptions)
    /\ isInitialized = FALSE
    /\ N = <<>>
    /\ E = <<>>
    /\ reply = NotCalled
    /\ pending = {}
    /\ node = NoInput
    /\ variableArg = NoInput
    /\ rendered = NotCalled
    /\ projector = NoInput
    /\ translated = NotCalled

(* Utils.dbRecordToNode(Utils.nodeToDbRecord(n)) *)
ConvertNode ==
    /\ converted = NotCalled
    /\ graphElement \in GraphNodes
    /\ LET r == nodeToDbRecord(graphElement)
       IN  converted' = [kind |-> "node", record |-> r, back |-> dbRecordToNode(r)]
    /\ UNCHANGED <<graphElement, isInitialized, N, E, reply, pending,
                   node, variableArg, rendered, projector, translated, adapterOptions, pc, connections, schema>>

(* Utils.dbRecordToEdge(Utils.edgeToDbRecord(e)) *)
ConvertEdge ==
    /\ converted = NotCalled
    /\ graphElement \in GraphEdges
    /\ LET r == edgeToDbRecord(graphElement)
       IN  converted' = [kind |-> "edge", record |-> r, back |-> dbRecordToEdge(r)]
    /\ UNCHANGED <<graphElement, isInitialized, N, E, reply, pending,
                   node, variableArg, rendered, projector, translated, adapterOptions, pc, connections, schema>>

NextRecords == ConvertNode \/ ConvertEdge

SpecRecords == InitRecords /\ [][NextRecords]_vars
----------------------------------------------------------------------------
(* The adapter with its lazy setup: API calls issued without waiting for   *)
(* one another                                                              *)

(* the options of the adapter: a storage file or a database in memory *)
SchemaOptions == [storage : {"file", "memory"}, recreateTables : BOOLEAN]

(* the node the call of a client creates *)
NodeOfClient(c) ==
    [id |-> Str(CASE c = 1 -> NODE_1 [] c = 2 -> NODE_2 [] OTHER -> NODE_3),
     labels |-> Arr(<<>>), data |-> One(KEY_A, Num(3))]

(* the variables of the compiler and of the record conversion *)
Outside == UNCHANGED <<node, variableArg, rendered, projector, translated, graphElement, converted>>

InitSetup ==
    /\ \E given \in SchemaOptions : Constructed(given)
    /\ isInitialized = FALSE
    /\ N = <<>>
    /\ E = <<>>
    /\ reply = NotCalled
    /\ pending = {}
    /\ graphElement = NoInput
    /\ converted = NotCalled
    /\ node = NoInput
    /\ variableArg = NoInput
    /\ rendered = NotCalled
    /\ projector = NoInput
    /\ translated = NotCalled

(* createNode(done)([data, id, labels]) is called: with isInitialized set  *)
(* the handler goes on to the store; otherwise setup runs up to its first   *)
(* await: parseSchemaOptions reads recreateTables and deletes it from the   *)
(* options, new Sequelize makes a connection                                *)
IssueCreateNode(c) ==
    /\ pc[c] = Idle
    /\ IF isInitialized
       THEN /\ pc' = [pc EXCEPT ![c] = [at |-> "ready"]]
            /\ UNCHANGED <<adapterOptions, connections>>
       ELSE /\ pc' = [pc EXCEPT ![c] = [at |-> "setup",
                                        force |-> adapterOptions.recreateTables,
                                        db |-> connections + 1]]
            /\ adapterOptions' = [adapterOptions EXCEPT !.recreateTables = FALSE]
            /\ connections' = connections + 1
    /\ UNCHANGED <<isInitialized, N, E, reply, pending, schema>>
    /\ Outside

(* db.sync({force}) finishes and setup assigns db, N and E: with force the *)
(* tables of the storage file are dropped and made again; a connection to a *)
(* database in memory has tables of its own, so N and E of a later          *)
(* connection start empty                                                   *)
FinishSetup(c) ==
    /\ pc[c].at = "setup"
    /\ LET emptied == \/ adapterOptions.storage = "file" /\ pc[c].force
                      \/ adapterOptions.storage = "memory" /\ schema # 0
       IN  /\ N' = IF emptied THEN <<>> ELSE N
           /\ E' = IF emptied THEN <<>> ELSE E
    /\ schema' = pc[c].db
    /\ isInitialized' = TRUE
    /\ pc' = [pc EXCEPT ![c] = [at |-> "ready"]]
    /\ UNCHANGED <<adapterOptions, connections, reply, pending>>
    /\ Outside

(* the rest of createNode, after the guard *)
RunCreateNode(c) ==
    /\ pc[c].at = "ready"
    /\ \E effect \in createNode(NodeOfClient(c)) :
          /\ N' = effect.rows
          /\ reply' = Reply("createNode",
                            <<NodeOfClient(c).data, NodeOfClient(c).id, NodeOfClient(c).labels>>,
                            effect.answer)
    /\ pc' = [pc EXCEPT ![c] = [at |-> "done"]]
    /\ UNCHANGED <<isInitialized, E, pending, adapterOptions, connections, schema>>
    /\ Outside

(* getDownstreamEdges(done)([sourceId, amount]) *)
GetDownstreamEdges(c) ==
    /\ pc[c] = Idle
    /\ \E answer \in getDownstreamEdges(Str(NODE_1), Undefined) :
          reply' = Reply("getDownstreamEdges", <<Str(NODE_1), Undefined>>, answer)
    /\ pc' = [pc EXCEPT ![c] = [at |-> "done"]]
    /\ UNCHANGED <<isInitialized, N, E, pending, adapterOptions, connections, schema>>
    /\ Outside

NextSetup ==
    \E c \in Clients :
        \/ IssueCreateNode(c)
        \/ FinishSetup(c)
        \/ RunCreateNode(c)
        \/ GetDownstreamEdges(c)

SpecSetup == InitSetup /\ [][NextSetup]_vars
----------------------------------------------------------------------------
(* Path queries on a populated store *)

LABEL_B == <<"B">>
LABEL_E1 == <<"E", "1">>
LABEL_E2 == <<"E", "2">>
EDGE_3 == <<"e", "3">>

(* n1 labelled A, n2 labelled B, n3 labelled B or Thing *)
PathNodes ==
    {<<NodeRow(Str(NODE_1), Str(LABEL_A), Obj(<<>>)),
       NodeRow(Str(NODE_2), Str(LABEL_B), Obj(<<>>)),
       NodeRow(Str(NODE_3), Str(l), Obj(<<>>))>> : l \in {LABEL_B, defaultNodeLabel}}

(* the edges a store may hold: n2 -> n1 and n1 -> n3 labelled E1, n1 -> n2 *)
(* labelled E2                                                              *)
PathEdges ==
    <<EdgeRow(Str(EDGE_1), Str(NODE_2), Str(NODE_1), Str(LABEL_E1), Obj(<<>>)),
      EdgeRow(Str(EDGE_2), Str(NODE_1), Str(NODE_3), Str(LABEL_E1), Obj(<<>>)),
      EdgeRow(Str(EDGE_3), Str(NODE_1), Str(NODE_2), Str(LABEL_E2), Obj(<<>>))>>

Paths ==
    {Arr(<<>>), Null,
     Arr(<<Str(LABEL_A), WILDCARD>>),
     Arr(<<Str(<<>>)>>),
     Arr(<<Str(LABEL_A), Str(<<>>), Str(LABEL_B)>>),
     Arr(<<Num(3)>>),
     Arr(<<Str(LABEL_A)>>), Arr(<<Str(LABEL_B)>>), Arr(<<Str(LABEL_TH)>>),
     Arr(<<Str(LABEL_A), WILDCARD, Str(LABEL_B)>>),
     Arr(<<Str(LABEL_A), Str(LABEL_E1), Str(LABEL_B)>>),
     Arr(<<WILDCARD, Str(LABEL_E1), WILDCARD>>),
     Arr(<<Str(LABEL_B), Str(LABEL_E1), Str(LABEL_A), Str(LABEL_E2), Str(LABEL_B)>>),
     Arr(<<Str(LABEL_A), WILDCARD, Str(LABEL_B), WILDCARD, Str(LABEL_A)>>)}

(* a store that createNode and createEdge have filled, on an adapter that  *)
(* is set up                                                                *)
InitPaths ==
    /\ N \in PathNodes
    /\ \E kept \in SUBSET (1..Len(PathEdges)) :
          E = SelectSeq(PathEdges, LAMBDA e : \E i \in kept : PathEdges[i] = e)
    /\ isInitialized = TRUE
    /\ adapterOptions = DefaultSchemaOptions
    /\ pc = [c \in Clients |-> Idle]
    /\ connections = 1
    /\ schema = 1
    /\ reply = NotCalled
    /\ pending = {}
    /\ graphElement = NoInput
    /\ converted = NotCalled
    /\ node = NoInput
    /\ variableArg = NoInput
    /\ rendered = NotCalled
    /\ projector = NoInput
    /\ translated = NotCalled

(* pathQuery(done)([path]) *)
PathQuery ==
    \E path \in Paths :
        /\ reply' = Reply("pathQuery", <<path>>, pathQuery(path))
        /\ UNCHANGED <<isInitialized, N, E, pending>>
        /\ Elsewhere

NextPaths == PathQuery

SpecPaths == InitPaths /\ [][NextPaths]_vars
----------------------------------------------------------------------------
(* Properties of the renderer *)

Called == rendered # NotCalled

IsPredicate(q) == q.operator # <<>> /\ q.field # <<>>

(* a predicate node as the parser builds it: its parts is the empty list *)
IsLeafPredicate(q) == IsPredicate(q) /\ q.hasParts /\ q.parts = <<>>

ComparisonOperators == {OP_EQ, OP_LT, OP_LTE, OP_GT, OP_GTE, OP_IN}

(* the documented symbol of a comparison / membership keyword *)
SymbolOf(op) ==
    CASE op = OP_EQ -> <<"=">>
      [] op = OP_LT -> <<"<">>
      [] op = OP_LTE -> <<"<", "=">>
      [] op = OP_GT -> <<">">>
      [] op = OP_GTE -> <<">", "=">>
      [] op = OP_IN -> <<"i", "n">>

IsScalar(v) == v.kind \in {"string", "number", "boolean"}

(* the literal text of a scalar *)
LiteralText(v) ==
    CASE v.kind = "string" -> v.chars
      [] v.kind = "number" -> NumberToString(v.num)
      [] v.kind = "boolean" -> IF v.bool THEN <<"t", "r", "u", "e">> ELSE <<"f", "a", "l", "s", "e">>

(* the documented operand format *)
RECURSIVE FormatOperand(_)
FormatOperand(v) ==
    CASE v.kind = "string" -> <<"'">> \o v.chars \o <<"'">>
      [] v.kind \in {"number", "boolean"} -> LiteralText(v)
      [] v.kind = "array" ->
            IF v.items = <<>> THEN <<"[", "]">>
            ELSE Join([i \in 1..Len(v.items) |-> FormatOperand(v.items[i])], <<",", " ">>)

(* operands the data model allows: scalars and sequences of such *)
RECURSIVE IsFormattable(_)
IsFormattable(v) ==
    \/ IsScalar(v)
    \/ /\ v.kind = "array"
       /\ \A i \in 1..Len(v.items) : IsFormattable(v.items[i])

TreeOr == Container(OP_OR, <<LeafR, LeafS>>)
TreeAnd == Container(OP_AND, <<LeafLt, LeafS>>)

SumLen(ss) == Len(Concat(ss))

(* C1: a node with operator $and / $or and no field renders as its parts'  *)
(* renders, in order, joined by ' and ' / ' or ', and nothing more: every  *)
(* child's text is in the output once (the trailing loop does not run).    *)
C1_ConnectiveJoinsOnce ==
    (/\ Called
     /\ node.operator \in {OP_AND, OP_OR}
     /\ node.field = <<>>
     /\ node.hasParts
     /\ \A i \in 1..Len(node.parts) :
            toSQL(node.parts[i], VariableOf(variableArg), 0).kind = "ok")
    => LET x == VariableOf(variableArg)
           sep == IF node.operator = OP_AND THEN <<" ", "a", "n", "d", " ">> ELSE <<" ", "o", "r", " ">>
           kids == [i \in 1..Len(node.parts) |-> toSQL(node.parts[i], x, 0).text]
       IN  /\ rendered = Ok(Join(kids, sep))
           /\ Len(rendered.text) =
                 SumLen(kids) + (IF kids = <<>> THEN 0 ELSE (Len(kids) - 1) * Len(sep))
           /\ (node = TreeOr /\ x = VARIABLE_U)
                 => rendered.text = <<"(", "u", ".", "x", " ", "=", " ", "'", "R", "'", ")", " ", "o", "r", " ", "(", "u", ".", "x", " ", "=", " ", "'", "S", "'", ")">>
           /\ (node = TreeAnd /\ x = VARIABLE_U)
                 => rendered.text = <<"(", "u", ".", "x", " ", "<", " ", "4", "5", ")", " ", "a", "n", "d", " ", "(", "u", ".", "x", " ", "=", " ", "'", "S", "'", ")">>

C1_Witness ==
    /\ node = TreeOr
    /\ variableArg = [given |-> TRUE, name |-> VARIABLE_U]
    /\ rendered = Ok(<<"(", "u", ".", "x", " ", "=", " ", "'", "R", "'", ")", " ", "o", "r", " ", "(", "u", ".", "x", " ", "=", " ", "'", "S", "'", ")">>)

(* C2: a predicate with a scalar operand and one of $eq $lt $lte $gt $gte  *)
(* $in renders as '(x.f <symbol> <operand formatted>)', x being 'n' when   *)
(* no variable is given.                                                   *)
C2_ScalarComparison ==
    (/\ Called
     /\ IsLeafPredicate(node)
     /\ node.operator \in ComparisonOperators
     /\ IsScalar(node.operand))
    => LET x == IF variableArg.given THEN variableArg.name ELSE <<"n">>
       IN  /\ rendered =
                 Ok(<<"(">> \o x \o <<".">> \o node.field \o <<" ">> \o SymbolOf(node.operator)
                    \o <<" ">> \o FormatOperand(node.operand) \o <<")">>)
           /\ (node = Leaf(OP_LT, FIELD_X, Num(12)) /\ ~variableArg.given)
                 => rendered.text = <<"(", "n", ".", "x", " ", "<", " ", "1", "2", ")">>
           /\ (node = Leaf(OP_GTE, FIELD_X, Num(12)) /\ ~variableArg.given)
                 => rendered.text = <<"(", "n", ".", "x", " ", ">", "=", " ", "1", "2", ")">>
           /\ (node = Leaf(OP_EQ, FIELD_X, Str(<<"R">>)) /\ x = VARIABLE_U)
                 => rendered.text = <<"(", "u", ".", "x", " ", "=", " ", "'", "R", "'", ")">>

C2_Witness ==
    /\ node = Leaf(OP_GTE, FIELD_X, Num(12))
    /\ variableArg = [given |-> FALSE]
    /\ rendered = Ok(<<"(", "n", ".", "x", " ", ">", "=", " ", "1", "2", ")">>)

(* C3: with a scalar operand v, $size renders as '(length(x.f) = v)',      *)
(* $startsWith as "(x.f like 'v%')", $contains as "(x.f like '%v%')" and   *)
(* $regex as "(x.f regexp 'v')"; $size is never the plain '(x.f = v)'.     *)
C3_StringAndSizePredicates ==
    (/\ Called
     /\ IsLeafPredicate(node)
     /\ node.operator \in {OP_SIZE, OP_STARTSWITH, OP_CONTAINS, OP_REGEX}
     /\ IsScalar(node.operand))
    => LET xf == VariableOf(variableArg) \o <<".">> \o node.field
           v == LiteralText(node.operand)
       IN  /\ node.operator = OP_SIZE =>
                 /\ rendered = Ok(<<"(", "l", "e", "n", "g", "t", "h", "(">> \o xf \o <<")", " ", "=", " ">> \o FormatOperand(node.operand) \o <<")">>)
                 /\ rendered.text # <<"(">> \o xf \o <<" ", "=", " ">> \o FormatOperand(node.operand) \o <<")">>
                 /\ node.operand.kind = "number" =>
                       rendered.text = <<"(", "l", "e", "n", "g", "t", "h", "(">> \o xf \o <<")", " ", "=", " ">> \o v \o <<")">>
           /\ node.operator = OP_STARTSWITH =>
                 rendered = Ok(<<"(">> \o xf \o <<" ", "l", "i", "k", "e", " ", "'">> \o v \o <<"%", "'", ")">>)
           /\ node.operator = OP_CONTAINS =>
                 rendered = Ok(<<"(">> \o xf \o <<" ", "l", "i", "k", "e", " ", "'", "%">> \o v \o <<"%", "'", ")">>)
           /\ node.operator = OP_REGEX =>
                 rendered = Ok(<<"(">> \o xf \o <<" ", "r", "e", "g", "e", "x", "p", " ", "'">> \o v \o <<"'", ")">>)

C3_Witness ==
    /\ node = Leaf(OP_SIZE, FIELD_X, Num(12))
    /\ variableArg = [given |-> TRUE, name |-> VARIABLE_U]
    /\ rendered = Ok(<<"(", "l", "e", "n", "g", "t", "h", "(", "u", ".", "x", ")", " ", "=", " ", "1", "2", ")">>)

(* C4: a predicate with a sequence operand and a comparison / membership   *)
(* operator renders as '(x.f <symbol> (<operand>))', the elements being    *)
(* formatted one by one and joined by ', ' inside the inner parentheses.   *)
C4_SequenceComparison ==
    (/\ Called
     /\ IsLeafPredicate(node)
     /\ node.operator \in ComparisonOperators
     /\ node.operand.kind = "array"
     /\ IsFormattable(node.operand))
    => LET xf == VariableOf(variableArg) \o <<".">> \o node.field
       IN  /\ rendered =
                 Ok(<<"(">> \o xf \o <<" ">> \o SymbolOf(node.operator) \o <<" ", "(">>
                    \o FormatOperand(node.operand) \o <<")", ")">>)
           /\ (node = Leaf(OP_IN, FIELD_X, Arr(<<Num(1), Num(2)>>)) /\ ~variableArg.given)
                 => rendered.text = <<"(", "n", ".", "x", " ", "i", "n", " ", "(", "1", ",", " ", "2", ")", ")">>
           /\ (node = Leaf(OP_IN, FIELD_X, Arr(<<Str(<<"a">>), Str(<<"b">>)>>))
               /\ ~variableArg.given)
                 => rendered.text = <<"(", "n", ".", "x", " ", "i", "n", " ", "(", "'", "a", "'", ",", " ", "'", "b", "'", ")", ")">>

C4_Witness ==
    /\ node = Leaf(OP_IN, FIELD_X, Arr(<<Str(<<"a">>), Str(<<"b">>)>>))
    /\ variableArg = [given |-> FALSE]
    /\ rendered = Ok(<<"(", "n", ".", "x", " ", "i", "n", " ", "(", "'", "a", "'", ",", " ", "'", "b", "'", ")", ")">>)

(* C5: $all with a sequence operand reverses the containment: the result   *)
(* is '(<operand> in x.f)', operand left, field right, no parentheses      *)
(* around the operand.                                                     *)
C5_AllReversesContainment ==
    (/\ Called
     /\ IsLeafPredicate(node)
     /\ node.operator = OP_ALL
     /\ node.operand.kind = "array"
     /\ IsFormattable(node.operand))
    => LET xf == VariableOf(variableArg) \o <<".">> \o node.field
       IN  /\ rendered = Ok(<<"(">> \o FormatOperand(node.operand) \o <<" ", "i", "n", " ">> \o xf \o <<")">>)
           /\ (node = Leaf(OP_ALL, FIELD_LABELS, Arr(<<Str(<<"a">>)>>)) /\ ~variableArg.given)
                 => rendered.text = <<"(", "'", "a", "'", " ", "i", "n", " ", "n", ".", "l", "a", "b", "e", "l", "s", ")">>

C5_Witness ==
    /\ node = Leaf(OP_ALL, FIELD_LABELS, Arr(<<Str(<<"a">>)>>))
    /\ variableArg = [given |-> FALSE]
    /\ rendered = Ok(<<"(", "'", "a", "'", " ", "i", "n", " ", "n", ".", "l", "a", "b", "e", "l", "s", ")">>)

(* text t occurs in text s *)
Occurs(t, s) ==
    \E i \in 1..(Len(s) - Len(t) + 1) : SubSeq(s, i, i + Len(t) - 1) = t

(* C6: rendering a node whose operator keyword the renderer does not know  *)
(* fails with the unrecognized-operator error, whose message names the     *)
(* keyword; the call yields no string, also when the node is a child.      *)
C6_UnknownOperatorFails ==
    Called =>
        /\ node.operator = OP_EQQ =>
              /\ rendered.kind = "throw"
              /\ rendered.error = "Error"
              /\ rendered.message = <<"U", "n", "r", "e", "c", "o", "g", "n", "i", "z", "e", "d", " ", "o", "p", "e", "r", "a", "t", "o", "r", " ", "'", "$", "e", "q", "q", "'", ".">>
              /\ Occurs(node.operator, rendered.message)
              /\ "text" \notin DOMAIN rendered
        /\ (/\ node.operator \in {<<>>, OP_AND, OP_OR}
            /\ node.field = <<>>
            /\ node.hasParts
            /\ \E i \in 1..Len(node.parts) : node.parts[i].operator = OP_EQQ)
              => rendered.kind = "throw"

C6_Witness ==
    /\ node = Leaf(OP_EQQ, FIELD_X, Num(12))
    /\ rendered = Throw("Error", <<"U", "n", "r", "e", "c", "o", "g", "n", "i", "z", "e", "d", " ", "o", "p", "e", "r", "a", "t", "o", "r", " ", "'", "$", "e", "q", "q", "'", ".">>)

(* the operand as it stands in the render of a $eq / $in leaf predicate *)
OperandText ==
    LET xf == VariableOf(variableArg) \o <<".">> \o node.field
    IN  IF node.operand.kind = "array"
        THEN SubSeq(rendered.text, Len(xf) + 7, Len(rendered.text) - 2)
        ELSE SubSeq(rendered.text, Len(xf) + 5, Len(rendered.text) - 1)

(* C7: operand formatting: a string stands between single quotes with its  *)
(* characters verbatim (a quote inside it is not escaped), a number or     *)
(* boolean is its literal, an empty sequence is '[]', a non-empty sequence *)
(* its elements formatted one by one and joined by ', '.                   *)
C7_OperandFormatting ==
    (/\ Called
     /\ IsLeafPredicate(node)
     /\ \/ node.operator = OP_EQ /\ IsScalar(node.operand)
        \/ node.operator = OP_IN /\ node.operand.kind = "array" /\ IsFormattable(node.operand))
    => LET v == node.operand
           t == OperandText
       IN  /\ rendered.kind = "ok"
           /\ v.kind = "string" =>
                 /\ Len(t) = Len(v.chars) + 2
                 /\ t[1] = "'" /\ t[Len(t)] = "'"
                 /\ SubSeq(t, 2, Len(t) - 1) = v.chars
           /\ v = Str(<<"o", "'", "k">>) => t = <<"'", "o", "'", "k", "'">>
           /\ v = Num(12) => t = <<"1", "2">>
           /\ v = Num(0) => t = <<"0">>
           /\ v = Num(0 - 3) => t = <<"-", "3">>
           /\ v = Bool(TRUE) => t = <<"t", "r", "u", "e">>
           /\ v = Bool(FALSE) => t = <<"f", "a", "l", "s", "e">>
           /\ v = Arr(<<>>) => t = <<"[", "]">>
           /\ (v.kind = "array" /\ v.items # <<>>) =>
                 t = Join([i \in 1..Len(v.items) |-> FormatOperand(v.items[i])], <<",", " ">>)
           /\ v = Arr(<<Arr(<<Num(1)>>), Str(<<"b">>)>>) => t = <<"1", ",", " ", "'", "b", "'">>

C7_Witness ==
    /\ node = Leaf(OP_EQ, FIELD_X, Str(<<"o", "'", "k">>))
    /\ variableArg = [given |-> FALSE]
    /\ rendered = Ok(<<"(", "n", ".", "x", " ", "=", " ", "'", "o", "'", "k", "'", ")">>)

TreeRoot == Container(<<>>, <<LeafR, LeafLt>>)

(* C8: a node without operator renders as its parts' renders, in order,    *)
(* with the same variable and no separator; with no parts as ''.           *)
C8_PureContainerConcatenates ==
    (/\ Called
     /\ node.operator = <<>>
     /\ node.hasParts
     /\ \A i \in 1..Len(node.parts) :
            toSQL(node.parts[i], VariableOf(variableArg), 0).kind = "ok")
    => LET x == VariableOf(variableArg)
           kids == [i \in 1..Len(node.parts) |-> toSQL(node.parts[i], x, 0).text]
       IN  /\ rendered = Ok(Concat(kids))
           /\ node.parts = <<>> => rendered = Ok(<<>>)
           /\ (node = TreeRoot /\ x = VARIABLE_U)
                 => rendered.text = <<"(", "u", ".", "x", " ", "=", " ", "'", "R", "'", ")", "(", "u", ".", "x", " ", "<", " ", "4", "5", ")">>

C8_Witness ==
    /\ node = TreeRoot
    /\ variableArg = [given |-> TRUE, name |-> VARIABLE_U]
    /\ rendered = Ok(<<"(", "u", ".", "x", " ", "=", " ", "'", "R", "'", ")", "(", "u", ".", "x", " ", "<", " ", "4", "5", ")">>)

----------------------------------------------------------------------------
(* Properties of the translator *)

Translated == translated # NotCalled

(* the where clause of a result that has one *)
WhereOf(result) == result.props[1].value

(* the rewritten mapping P is part of the result: it is the where clause, *)
(* or the last element of the where sequence                               *)
HasOrdinaryMapping ==
    /\ translated.kind = "ok"
    /\ translated.value.props # <<>>
    /\ LET w == WhereOf(translated.value)
       IN  \/ w.kind = "object"
           \/ w.kind = "array" /\ w.items[Len(w.items)].kind = "object"

OrdinaryMapping ==
    LET w == WhereOf(translated.value)
    IN  IF w.kind = "object" THEN w ELSE w.items[Len(w.items)]

(* the documented operator tag of a connector keyword *)
TagOf(k) ==
    CASE k = OP_EQ -> Sym("eq")
      [] k = OP_LT -> Sym("lt")
      [] k = OP_LTE -> Sym("lte")
      [] k = OP_GT -> Sym("gt")
      [] k = OP_GTE -> Sym("gte")
      [] k = OP_IN -> Sym("in")
      [] k = OP_AND -> Sym("and")
      [] k = OP_OR -> Sym("or")
      [] k = OP_STARTSWITH -> Sym("startsWith")
      [] k = OP_CONTAINS -> Sym("substring")

(* the documented key of a field name *)
FieldKeyOf(k) == IF k \in {<<"i", "d">>, <<"l", "a", "b", "e", "l", "s">>} THEN Str(k) ELSE Str(<<"d", "a", "t", "a", ".">> \o k)

(* a sub-filter with the length predicate goes to the standalone list *)
HasSize(v) ==
    /\ v.kind = "object"
    /\ \E i \in 1..Len(v.props) : v.props[i].key = Str(OP_SIZE)

KeyAgrees(k, outKey, mode) ==
    IF k \in ConnectorKeywords
    THEN IF mode = "operators" THEN outKey = TagOf(k) ELSE outKey.kind = "symbol"
    ELSE IF mode = "fields" THEN outKey = FieldKeyOf(k) ELSE outKey.kind = "string"

(* out has, at every nesting level, one property per key of f (those with *)
(* a length predicate left out), under the documented key - checked for   *)
(* the field names (mode "fields") or for the keywords (mode "operators") *)
RECURSIVE KeysRewritten(_, _, _)
KeysRewritten(f, out, mode) ==
    CASE f.kind = "object" ->
            LET kept == SelectSeq(f.props, LAMBDA e : ~HasSize(e.value))
            IN  /\ out.kind = "object"
                /\ Len(out.props) = Len(kept)
                /\ \A i \in 1..Len(kept) : \E j \in 1..Len(out.props) :
                      /\ KeyAgrees(kept[i].key.chars, out.props[j].key, mode)
                      /\ KeysRewritten(kept[i].value, out.props[j].value, mode)
      [] f.kind = "array" ->
            /\ out.kind = "array"
            /\ Len(out.items) = Len(f.items)
            /\ \A i \in 1..Len(f.items) :
                  f.items[i].kind \in {"object", "array"}
                     => KeysRewritten(f.items[i], out.items[i], mode)
      [] OTHER -> TRUE

Where(p) == OkValue(Obj(<<Prop(Str(KEY_WHERE), p)>>))

(* C9: every key of the filter, at every nesting level, is rewritten: 'id' *)
(* and 'labels' stay as they are, every other field name k becomes         *)
(* 'data.k'.                                                               *)
C9_FieldKeysRewritten ==
    (Translated /\ translated.kind = "ok")
    => /\ HasOrdinaryMapping => KeysRewritten(projector, OrdinaryMapping, "fields")
       /\ projector = One(KEY_A, Num(3))
             => translated = Where(Obj(<<Prop(Str(<<"d", "a", "t", "a", ".", "a">>), Num(3))>>))
       /\ projector = One(KEY_ID, Num(3))
             => translated = Where(Obj(<<Prop(Str(<<"i", "d">>), Num(3))>>))
       /\ projector = One(KEY_LABELS, Str(<<"c", ",", "v">>))
             => translated = Where(Obj(<<Prop(Str(<<"l", "a", "b", "e", "l", "s">>), Str(<<"c", ",", "v">>))>>))
       /\ projector = One(KEY_A, One(KEY_B, Num(3)))
             => translated = Where(Obj(<<Prop(Str(<<"d", "a", "t", "a", ".", "a">>),
                                              Obj(<<Prop(Str(<<"d", "a", "t", "a", ".", "b">>), Num(3))>>))>>))

C9_Witness ==
    /\ projector = One(KEY_LABELS, One(KEY_B, Num(3)))
    /\ translated = Where(Obj(<<Prop(Str(<<"l", "a", "b", "e", "l", "s">>), Obj(<<Prop(Str(<<"d", "a", "t", "a", ".", "b">>), Num(3))>>))>>))

(* the string keys of a value, at every nesting level *)
RECURSIVE StringKeys(_)
StringKeys(v) ==
    CASE v.kind = "object" ->
            {v.props[i].key.chars : i \in {j \in 1..Len(v.props) : v.props[j].key.kind = "string"}}
            \cup UNION {StringKeys(v.props[i].value) : i \in 1..Len(v.props)}
      [] v.kind = "array" -> UNION {StringKeys(v.items[i]) : i \in 1..Len(v.items)}
      [] OTHER -> {}

(* C10: each of $eq $lt $lte $gt $gte $in $and $or $startsWith $contains   *)
(* becomes its own operator tag, a symbol and not a string ($contains the  *)
(* substring tag); no keyword gets the 'data.' prefix.                     *)
C10_KeywordsBecomeTags ==
    (Translated /\ translated.kind = "ok")
    => /\ HasOrdinaryMapping => KeysRewritten(projector, OrdinaryMapping, "operators")
       /\ \A k \in ConnectorKeywords : (<<"d", "a", "t", "a", ".">> \o k) \notin StringKeys(translated.value)
       /\ \A k \in ConnectorKeywords \ {OP_AND, OP_OR} :
             projector = One(KEY_A, One(k, Num(4)))
                => translated = Where(Obj(<<Prop(Str(<<"d", "a", "t", "a", ".", "a">>), Obj(<<Prop(TagOf(k), Num(4))>>))>>))
       /\ projector = One(KEY_A, One(OP_CONTAINS, Num(4)))
             => translated =
                   Where(Obj(<<Prop(Str(<<"d", "a", "t", "a", ".", "a">>), Obj(<<Prop(Sym("substring"), Num(4))>>))>>))

C10_Witness ==
    /\ projector = One(KEY_A, One(OP_EQ, Num(4)))
    /\ translated = Where(Obj(<<Prop(Str(<<"d", "a", "t", "a", ".", "a">>), Obj(<<Prop(Sym("eq"), Num(4))>>))>>))

(* the standalone predicate: the array length of the JSON field of the    *)
(* data column at path $.<key> equals the operand                          *)
LengthPredicate(k, v) ==
    [kind |-> "Where",
     attribute |-> [fn |-> "json_array_length",
                    args |-> <<[col |-> "data"], [literal |-> <<"\"", "$", ".">> \o k \o <<"\"">>]>>],
     logic |-> v]

(* the operand of $size in a mapping that has it *)
SizeOperand(v) ==
    v.props[CHOOSE i \in 1..Len(v.props) : v.props[i].key = Str(OP_SIZE)].value

(* the standalone predicates of a result, in the order they stand there *)
StandaloneOf(result) ==
    IF result.props = <<>> \/ WhereOf(result).kind # "array" THEN <<>>
    ELSE SelectSeq(WhereOf(result).items, LAMBDA e : e.kind = "Where")

InSeq(e, s) == \E i \in 1..Len(s) : s[i] = e

FilterSizeAndB ==
    Obj(<<Prop(Str(KEY_A), One(OP_SIZE, Num(4))), Prop(Str(KEY_B), Num(3))>>)

(* C11: a key k whose value is a mapping with $size v adds one standalone  *)
(* length predicate, built from k as written and v, and no entry for k to  *)
(* the ordinary mapping; {a: {$size: 4}, b: 3} gives a where sequence of   *)
(* the predicate followed by {'data.b': 3}.                                *)
C11_SizeBecomesStandalone ==
    (Translated /\ translated.kind = "ok")
    => LET diverted == SelectSeq(projector.props, LAMBDA e : HasSize(e.value))
           kept == SelectSeq(projector.props, LAMBDA e : ~HasSize(e.value))
           S == StandaloneOf(translated.value)
       IN  /\ \A i \in 1..Len(diverted) :
                 /\ InSeq(LengthPredicate(diverted[i].key.chars, SizeOperand(diverted[i].value)), S)
                 /\ HasOrdinaryMapping =>
                       \A j \in 1..Len(OrdinaryMapping.props) :
                          OrdinaryMapping.props[j].key # FieldKeyOf(diverted[i].key.chars)
           /\ diverted # <<>> =>
                 /\ WhereOf(translated.value).kind = "array"
                 /\ HasOrdinaryMapping => Len(OrdinaryMapping.props) = Len(kept)
           /\ projector = FilterSizeAndB =>
                 translated = Where(Arr(<<LengthPredicate(<<"a">>, Num(4)),
                                          Obj(<<Prop(Str(<<"d", "a", "t", "a", ".", "b">>), Num(3))>>)>>))

C11_Witness ==
    /\ projector = FilterSizeAndB
    /\ translated = Where(Arr(<<LengthPredicate(<<"a">>, Num(4)),
                                Obj(<<Prop(Str(<<"d", "a", "t", "a", ".", "b">>), Num(3))>>)>>))

(* C12: when there are standalone predicates and the rewritten mapping has *)
(* a key - a field key or an operator tag - the result is {where: S        *)
(* followed by P}; P is left out only when it has no key at all.           *)
C12_MappingFollowsStandalone ==
    Translated =>
        LET rw == rewrite(projector, <<>>) IN
        (rw.kind = "ok" /\ rw.specialCases # <<>>)
        => /\ rw.value.props # <<>> =>
                 translated = Where(Arr(Append(rw.specialCases, rw.value)))
           /\ rw.value.props = <<>> => translated = Where(Arr(rw.specialCases))

(* the number of keys $size in a filter, at every position *)
RECURSIVE SizeCount(_)
RECURSIVE SizeCountAll(_)
SizeCountAll(vs) == IF vs = <<>> THEN 0 ELSE SizeCount(Head(vs)) + SizeCountAll(Tail(vs))
SizeCount(v) ==
    CASE v.kind = "object" ->
            Len(SelectSeq(v.props, LAMBDA e : e.key = Str(OP_SIZE)))
            + SizeCountAll([i \in 1..Len(v.props) |-> v.props[i].value])
      [] v.kind = "array" -> SizeCountAll(v.items)
      [] OTHER -> 0

SizeDerivedKeys == {OP_SIZE, <<"d", "a", "t", "a", ".", "$", "s", "i", "z", "e">>}

(* C13: $size has no operator tag: each $size of a filter - a top-level    *)
(* key, a key of a nested mapping, a key in an element of an $and / $or    *)
(* list - goes the special-case way and gives a standalone predicate, and  *)
(* no key derived from $size is in the ordinary mapping.                   *)
C13_SizeAlwaysSpecialCased ==
    (Translated /\ SizeCount(projector) > 0)
    => /\ translated.kind = "ok"
       /\ Len(StandaloneOf(translated.value)) = SizeCount(projector)
       /\ StringKeys(translated.value) \cap SizeDerivedKeys = {}

(* out is f with its keys replaced and every other value as it was *)
RECURSIVE ValuesPreserved(_, _)
ValuesPreserved(f, out) ==
    CASE f.kind = "object" ->
            LET kept == SelectSeq(f.props, LAMBDA e : ~HasSize(e.value))
            IN  /\ out.kind = "object"
                /\ Len(out.props) = Len(kept)
                /\ \A i \in 1..Len(kept) : \E j \in 1..Len(out.props) :
                      /\ out.props[j].key =
                            (IF kept[i].key.chars \in ConnectorKeywords
                             THEN TagOf(kept[i].key.chars) ELSE FieldKeyOf(kept[i].key.chars))
                      /\ ValuesPreserved(kept[i].value, out.props[j].value)
      [] f.kind = "array" ->
            /\ out.kind = "array"
            /\ Len(out.items) = Len(f.items)
            /\ \A i \in 1..Len(f.items) : ValuesPreserved(f.items[i], out.items[i])
      [] OTHER -> out = f

FilterIn == One(KEY_A, One(OP_IN, Arr(<<Num(1), Num(2)>>)))

(* C14: a mapping value is rewritten recursively, a sequence value element *)
(* by element with its length and order, a scalar is used as it is - also  *)
(* a scalar element of a list: {a: {$in: [1, 2]}} gives                    *)
(* {where: {'data.a': {<in>: [1, 2]}}}.                                    *)
C14_ValuesPreserved ==
    (Translated /\ translated.kind = "ok")
    => /\ HasOrdinaryMapping => ValuesPreserved(projector, OrdinaryMapping)
       /\ projector = FilterIn =>
             translated = Where(Obj(<<Prop(Str(<<"d", "a", "t", "a", ".", "a">>),
                                         Obj(<<Prop(Sym("in"), Arr(<<Num(1), Num(2)>>))>>))>>))

FilterOr == One(OP_OR, Arr(<<One(KEY_A, Num(3))>>))

(* C15: without standalone predicates the result is {} exactly when the    *)
(* rewritten mapping has no key at all, and {where: P} otherwise: {} gives *)
(* {}, and a filter with only $and / $or at the top has a where clause.    *)
C15_AssemblyWithoutStandalone ==
    (Translated /\ translated.kind = "ok" /\ SizeCount(projector) = 0)
    => /\ (translated.value = Obj(<<>>)) <=> (projector.props = <<>>)
       /\ projector.props # <<>> =>
             /\ translated = Where(WhereOf(translated.value))
             /\ WhereOf(translated.value).kind = "object"
             /\ Len(WhereOf(translated.value).props) = Len(projector.props)
       /\ projector = Obj(<<>>) => translated = OkValue(Obj(<<>>))
       /\ projector = FilterOr =>
             translated = Where(Obj(<<Prop(Sym("or"),
                                         Arr(<<Obj(<<Prop(Str(<<"d", "a", "t", "a", ".", "a">>), Num(3))>>)>>))>>))

C15_Witness ==
    /\ projector = FilterOr
    /\ translated = Where(Obj(<<Prop(Sym("or"), Arr(<<Obj(<<Prop(Str(<<"d", "a", "t", "a", ".", "a">>), Num(3))>>)>>))>>))

(* the length predicates of a filter in pre-order over its own key order *)
RECURSIVE Encountered(_)
RECURSIVE EncounteredIn(_)
RECURSIVE EncounteredAll(_)
EncounteredAll(vs) ==
    IF vs = <<>> THEN <<>> ELSE Encountered(Head(vs)) \o EncounteredAll(Tail(vs))
EncounteredIn(ps) ==
    IF ps = <<>> THEN <<>>
    ELSE (IF HasSize(Head(ps).value)
          THEN <<LengthPredicate(Head(ps).key.chars, SizeOperand(Head(ps).value))>>
          ELSE Encountered(Head(ps).value))
         \o EncounteredIn(Tail(ps))
Encountered(v) ==
    CASE v.kind = "object" -> EncounteredIn(v.props)
      [] v.kind = "array" -> EncounteredAll(v.items)
      [] OTHER -> <<>>

FilterSizeTwice ==
    One(OP_AND, Arr(<<One(KEY_A, One(OP_SIZE, Num(4))), One(KEY_A, One(OP_SIZE, Num(4)))>>))

(* C16: several $size sub-filters give their standalone predicates in the  *)
(* order they are met (pre-order over the filter's key order), one for     *)
(* each occurrence, an equal one again.                                    *)
C16_StandaloneInEncounterOrder ==
    (Translated /\ translated.kind = "ok")
    => /\ StandaloneOf(translated.value) = Encountered(projector)
       /\ projector = FilterSizeTwice =>
             StandaloneOf(translated.value) =
                <<LengthPredicate(<<"a">>, Num(4)), LengthPredicate(<<"a">>, Num(4))>>

C16_Witness ==
    /\ projector = Obj(<<Prop(Str(KEY_B), One(OP_SIZE, Num(4))),
                         Prop(Str(KEY_A), Obj(<<Prop(Str(OP_SIZE), Num(3)),
                                                Prop(Str(OP_GT), Num(1))>>))>>)
    /\ translated = Where(Arr(<<LengthPredicate(<<"b">>, Num(4)), LengthPredicate(<<"a">>, Num(3))>>))

UnrecognisedKeywords == {OP_EQQ, OP_REGEX, OP_ALL}

(* a null somewhere in a list of the filter *)
RECURSIVE HasNullElement(_)
HasNullElement(v) ==
    CASE v.kind = "object" -> \E i \in 1..Len(v.props) : HasNullElement(v.props[i].value)
      [] v.kind = "array" ->
            \E i \in 1..Len(v.items) : v.items[i].kind = "null" \/ HasNullElement(v.items[i])
      [] OTHER -> FALSE

(* C17: no filter is rejected for an unrecognised key: a key that is not a *)
(* connector keyword - $eqq, and $regex and $all, which only the renderer  *)
(* knows - is taken for a field name and becomes 'data.<key>', and the     *)
(* call returns a descriptor.                                              *)
C17_UnrecognisedKeysAreFields ==
    Translated =>
        /\ (SizeCount(projector) = 0 /\ ~HasNullElement(projector)) => translated.kind = "ok"
        /\ \A k \in UnrecognisedKeywords :
              /\ projector = One(k, Num(4)) =>
                    translated = Where(Obj(<<Prop(Str(<<"d", "a", "t", "a", ".">> \o k), Num(4))>>))
              /\ projector = One(KEY_A, One(k, Num(4))) =>
                    translated = Where(Obj(<<Prop(Str(<<"d", "a", "t", "a", ".", "a">>),
                                                Obj(<<Prop(Str(<<"d", "a", "t", "a", ".">> \o k), Num(4))>>))>>))

C17_Witness ==
    /\ projector = One(KEY_A, One(OP_EQQ, Num(4)))
    /\ translated = Where(Obj(<<Prop(Str(<<"d", "a", "t", "a", ".", "a">>), Obj(<<Prop(Str(<<"d", "a", "t", "a", ".", "$", "e", "q", "q">>), Num(4))>>))>>))

----------------------------------------------------------------------------
(* Properties of the adapter *)

(* the latest API call was `call` and it reported success through done *)
Answered(call) ==
    /\ reply # NotCalled
    /\ reply.call = call
    /\ reply.outcome.kind = "done"
    /\ reply.outcome.error = Null

(* the graph elements the store holds, as the API hands them out *)
StoredNodes == [i \in 1..Len(N) |-> dbRecordToNode(N[i])]
StoredEdges == [i \in 1..Len(E) |-> dbRecordToEdge(E[i])]

(* a field value x satisfies one operator keyword of a filter *)
Holds(op, x, v) ==
    CASE op = OP_EQ -> x = v
      [] op = OP_LT -> x.kind = "number" /\ x.num < v.num
      [] op = OP_LTE -> x.kind = "number" /\ x.num <= v.num
      [] op = OP_GT -> x.kind = "number" /\ x.num > v.num
      [] op = OP_GTE -> x.kind = "number" /\ x.num >= v.num
      [] OTHER -> FALSE

(* a graph element satisfies a Mongo-like filter: every key holds, $or and *)
(* $and range over their lists, a field holds a value or every operator of *)
(* a nested mapping                                                         *)
RECURSIVE FilterMatches(_, _)
FilterMatches(filter, element) ==
    \A i \in 1..Len(filter.props) :
        LET k == filter.props[i].key.chars
            v == filter.props[i].value
        IN  CASE k = OP_OR -> \E j \in 1..Len(v.items) : FilterMatches(v.items[j], element)
              [] k = OP_AND -> \A j \in 1..Len(v.items) : FilterMatches(v.items[j], element)
              [] OTHER ->
                    LET x == Get(element.props, Str(k)) IN
                    IF v.kind = "object"
                    THEN \A j \in 1..Len(v.props) : Holds(v.props[j].key.chars, x, v.props[j].value)
                    ELSE x = v

(* C19: getNodes(filter, amount) returns at most amount nodes, each a      *)
(* stored node that matches the filter and none twice, and exactly amount  *)
(* of them when at least that many match (all matching ones otherwise);    *)
(* with no amount given the query runs with the limit 1000.                *)
C19_GetNodesRespectsAmount ==
    Answered("getNodes") =>
        LET filter == reply.args[1]
            amount == reply.args[2]
            limit == IF isNil(amount) THEN 1000 ELSE amount.num
            returned == reply.outcome.value.items
            matching == SelectSeq(StoredNodes, LAMBDA n : FilterMatches(filter, n))
        IN  /\ Len(returned) <= limit
            /\ \A i \in 1..Len(returned) :
                    FilterMatches(filter, returned[i]) /\ InSeq(returned[i], StoredNodes)
            /\ Distinct(returned)
            /\ Len(matching) >= limit => Len(returned) = limit
            /\ Len(matching) < limit => Len(returned) = Len(matching)
            /\ isNil(amount) => Get(reply.query.props, Str(KEY_LIMIT)) = Num(1000)

(* three nodes are stored, all match {}, and getNodes({}, 2) returned two *)
C19_Witness ==
    /\ Answered("getNodes")
    /\ reply.args = <<Obj(<<>>), Num(2)>>
    /\ Len(N) = 3
    /\ Len(reply.outcome.value.items) = 2

(* C20: getEdges(filter, amount) returns at most amount edges, as a query  *)
(* with the limit amount merged into its descriptor does.                  *)
C20_GetEdgesRespectsAmount ==
    (Answered("getEdges") /\ ~isNil(reply.args[2])) =>
        Len(reply.outcome.value.items) <= reply.args[2].num

(* the name of the API call a reply belongs to *)
Call(r) == IF r = NotCalled THEN "none" ELSE r.call

(* the step is the API call `call`: every API call leaves its name in      *)
(* reply, and the one step that is no API call takes a destroy from pending *)
IsCall(call) == Call(reply') = call /\ pending' = pending

(* C21: deleteEdge with a string id removes exactly the edge with that id: *)
(* no edge with the id is stored afterwards, and every edge with another id *)
(* that was stored still is (so nothing is removed when no edge has the id). *)
C21_DeleteEdgeRemovesExactly ==
    [][(IsCall("deleteEdge") /\ isString(reply'.args[1]))
        => LET id == reply'.args[1] IN
           /\ \A j \in 1..Len(E') : E'[j].id # id
           /\ \A i \in 1..Len(E) : E[i].id # id => \E j \in 1..Len(E') : E'[j] = E[i]]_vars

(* C22: once deleteNode(id) has reported completion through done, no node  *)
(* with that id is stored, so that a nodeExists(id) issued from then on     *)
(* answers false.                                                           *)
C22_DeletedNodeIsGone ==
    (Answered("deleteNode") /\ isString(reply.args[1])) => ~nodeExists(reply.args[1])

Failed(outcome) ==
    \/ outcome.kind = "rejected"
    \/ outcome.kind = "done" /\ outcome.error # Null

(* no two rows of a table have the same id *)
OnePerId(rows) == \A i, j \in 1..Len(rows) : rows[i].id = rows[j].id => i = j

(* C23: createNode with an id that is stored fails with an error and       *)
(* leaves the tables as they are, createEdge with the id of a stored edge   *)
(* likewise; whatever calls are made, no table holds two rows with one id.  *)
C23_CreateRefusesExistingId ==
    [][/\ (IsCall("createNode") /\ nodeExists(reply'.args[2]))
          => (Failed(reply'.outcome) /\ N' = N /\ E' = E)
       /\ (IsCall("createEdge") /\ edgeExists(reply'.args[4]))
          => (Failed(reply'.outcome) /\ N' = N /\ E' = E)
       /\ OnePerId(N') /\ OnePerId(E')]_vars

(* createNode was refused for n1, which is stored with the payload a = 3,  *)
(* when the call brought a = 4                                              *)
C23_Witness ==
    /\ Call(reply) = "createNode"
    /\ reply.outcome.kind = "rejected"
    /\ reply.args[1] = One(KEY_A, Num(4))
    /\ \E i \in 1..Len(N) : N[i].id = reply.args[2] /\ N[i].data = One(KEY_A, Num(3))

(* C24: createEdge with a missing sourceId or targetId, or with an         *)
(* endpoint id that is not the id of a stored node, fails with an error and *)
(* stores no edge.                                                          *)
C24_EdgeNeedsBothEndpoints ==
    [][(/\ IsCall("createEdge")
        /\ \/ isNil(reply'.args[1]) \/ isNil(reply'.args[2])
           \/ ~nodeExists(reply'.args[1]) \/ ~nodeExists(reply'.args[2]))
        => (Failed(reply'.outcome) /\ E' = E)]_vars

(* createEdge n1 -> n3 failed on the foreign key while n1 is stored and n3 *)
(* is not, and no edge is stored                                            *)
C24_Witness ==
    /\ Call(reply) = "createEdge"
    /\ reply.outcome.kind = "done"
    /\ reply.outcome.error = Str(ForeignKeyMessage)
    /\ nodeExists(reply.args[1])
    /\ ~nodeExists(reply.args[2])
    /\ E = <<>>

(* the labels of a graph element, as a set of strings *)
LabelsOf(e) ==
    LET labels == Get(e.props, Str(KEY_LABELS))
    IN  {labels.items[i] : i \in 1..Len(labels.items)}

(* C26: getNodesWithLabel(L) returns only stored nodes whose label list    *)
(* contains L itself, none twice, and all of them up to the amount limit.   *)
C26_NodesWithLabelItself ==
    Answered("getNodesWithLabel") =>
        LET L == reply.args[1]
            amount == reply.args[2]
            returned == reply.outcome.value.items
            labelled == SelectSeq(StoredNodes, LAMBDA n : L \in LabelsOf(n))
        IN  /\ \A i \in 1..Len(returned) :
                    L \in LabelsOf(returned[i]) /\ InSeq(returned[i], StoredNodes)
            /\ Distinct(returned)
            /\ Len(returned) = (IF isNil(amount) THEN Len(labelled)
                                ELSE Min(amount.num, Len(labelled)))

(* C27: getEdgeWithLabel(sourceId, targetId, label) returns a stored edge  *)
(* that carries the label and runs from sourceId to targetId, or null when  *)
(* no such edge is stored.                                                  *)
C27_EdgeWithLabelBetween ==
    Answered("getEdgeWithLabel") =>
        LET sourceId == reply.args[1]
            targetId == reply.args[2]
            label == reply.args[3]
            Fits(e) == /\ label \in LabelsOf(e)
                       /\ Get(e.props, Str(KEY_SOURCEID)) = sourceId
                       /\ Get(e.props, Str(KEY_TARGETID)) = targetId
            found == reply.outcome.value
        IN  IF \E i \in 1..Len(StoredEdges) : Fits(StoredEdges[i])
            THEN found # Null /\ Fits(found) /\ InSeq(found, StoredEdges)
            ELSE found = Null

(* the members of an object other than the id and the labels *)
Further(props) ==
    SelectSeq(props, LAMBDA e : e.key # Str(KEY_ID) /\ e.key # Str(KEY_LABELS))

(* the members of two objects are the same, in whatever order *)
SameMembers(p, q) == {p[i] : i \in 1..Len(p)} = {q[i] : i \in 1..Len(q)}

(* C28: an updateNode for the id of a stored node succeeds and leaves the  *)
(* number of nodes as it was; getNode(id) then answers a node with that id, *)
(* the labels of the update and, besides them, exactly the properties the   *)
(* update gives, so none of the earlier ones it leaves out.                 *)
C28_UpdateReplacesProperties ==
    [][\A given \in NodeUpdates :
          (/\ IsCall("updateNode")
           /\ reply'.args = <<given.data, given.id, given.labels>>
           /\ nodeExists(given.id)) =>
              /\ reply'.outcome.kind = "done"
              /\ reply'.outcome.error = Null
              /\ Len(N') = Len(N)
              /\ \A answer \in getNode(given.id)' :
                    /\ answer.outcome.error = Null
                    /\ answer.outcome.value # Null
                    /\ Get(answer.outcome.value.props, Str(KEY_ID)) = given.id
                    /\ Get(answer.outcome.value.props, Str(KEY_LABELS)) = given.labels
                    /\ SameMembers(Further(answer.outcome.value.props),
                                   Further(given.data.props))
      ]_vars

(* n1, created with a, has been updated with b alone: it has b and no a *)
C28_Witness ==
    /\ Answered("updateNode")
    /\ reply.args[2] = Str(NODE_1)
    /\ \E i \in 1..Len(StoredNodes) :
          /\ Get(StoredNodes[i].props, Str(KEY_ID)) = Str(NODE_1)
          /\ Get(StoredNodes[i].props, Str(KEY_B)) = Num(3)
          /\ Get(StoredNodes[i].props, Str(KEY_A)) = Undefined

(* C29: once upsertNode has reported success for an id, a node with that   *)
(* id is stored with the properties given, and likewise an edge after       *)
(* upsertEdge, whether the id was stored before, never stored, or deleted   *)
(* by an earlier call.                                                      *)
C29_UpsertedElementExists ==
    /\ Answered("upsertNode") =>
          \E i \in 1..Len(StoredNodes) :
              /\ Get(StoredNodes[i].props, Str(KEY_ID)) = reply.args[2]
              /\ SameMembers(Further(StoredNodes[i].props), Further(reply.args[1].props))
    /\ Answered("upsertEdge") =>
          \E i \in 1..Len(E) :
              /\ E[i].id = reply.args[2]
              /\ E[i].data = reply.args[1].data

(* C30: converting a node to a record and back gives a node with the same  *)
(* members, and the data of the record holds the members other than id and  *)
(* labels; likewise for an edge, whose data also leaves out sourceId and    *)
(* targetId.                                                                *)
C30_RecordRoundTrip ==
    converted # NotCalled =>
        /\ SameMembers(converted.back.props, graphElement.props)
        /\ SameMembers(converted.record.data.props,
                       SelectSeq(graphElement.props,
                                 LAMBDA e : e.key \notin
                                     {Str(KEY_ID), Str(KEY_LABELS)} \cup
                                     (IF converted.kind = "edge"
                                      THEN {Str(KEY_SOURCEID), Str(KEY_TARGETID)}
                                      ELSE {})))

(* C31: nothing is set up when the adapter has been constructed, and an    *)
(* API call that has finished ran on a store that setup had made ready:     *)
(* a connection exists and isInitialized is set.                            *)
C31_SetupBeforeStore ==
    /\ (\A c \in Clients : pc[c] = Idle) => (connections = 0 /\ ~isInitialized)
    /\ (\E c \in Clients : pc[c].at = "done") => (connections >= 1 /\ isInitialized)

(* C39: whatever the interleaving of the API calls, at most one connection *)
(* is made and synced.                                                      *)
C39_SetupAtMostOnce == connections <= 1

PathQueried == reply # NotCalled /\ reply.call = "pathQuery"

(* C32: pathQuery answers the empty graph for an empty path, fails for a   *)
(* path of even length and for a path with an element that is not a        *)
(* non-empty string, and for a path of one label answers a graph without    *)
(* edges whose nodes are the stored nodes that have that label.             *)
C32_PathQueryValidates ==
    (PathQueried /\ reply.args[1].kind = "array") =>
        LET path == reply.args[1].items
            g == reply.outcome.value
            succeeded == reply.outcome.kind = "done" /\ reply.outcome.error = Null
        IN  IF path = <<>> THEN succeeded /\ g = GraphOf(<<>>, <<>>)
            ELSE IF Len(path) % 2 = 0 THEN Failed(reply.outcome)
            ELSE IF \E i \in 1..Len(path) : ~isString(path[i]) \/ path[i].chars = <<>>
            THEN Failed(reply.outcome)
            ELSE IF Len(path) = 1
            THEN /\ succeeded
                 /\ g.edges = <<>>
                 /\ {IdOf(g.nodes[i]) : i \in 1..Len(g.nodes)}
                        = {N[i].id : i \in {j \in 1..Len(N) :
                                                includes(SplitLabels(N[j].labels).items, path[1])}}
            ELSE TRUE

(* a label of a pattern matches the labels of an element *)
Matches(pattern, labels) == pattern = WILDCARD \/ includes(labels, pattern)

(* the complete paths of the store for a pattern: the rows of the nodes    *)
(* n0 .. nk whose labels match the node positions and which edges with      *)
(* matching labels join in turn                                             *)
CompletePaths(path) ==
    LET k == (Len(path) - 1) \div 2
    IN  {w \in [1..(k + 1) -> 1..Len(N)] :
            /\ \A j \in 1..(k + 1) : Matches(path[2 * j - 1], SplitLabels(N[w[j]].labels).items)
            /\ \A j \in 1..k : \E i \in 1..Len(E) :
                  /\ E[i].sourceId = N[w[j]].id
                  /\ E[i].targetId = N[w[j + 1]].id
                  /\ Matches(path[2 * j], SplitLabels(E[i].labels).items)}

(* C33: every node of the graph pathQuery answers for a pattern of three   *)
(* or more labels lies on a complete path of the store that matches the     *)
(* pattern position by position.                                            *)
C33_NoPartialPaths ==
    (/\ PathQueried
     /\ reply.outcome.error = Null
     /\ reply.args[1].kind = "array"
     /\ Len(reply.args[1].items) >= 3) =>
        \A i \in 1..Len(reply.outcome.value.nodes) :
            \E w \in CompletePaths(reply.args[1].items) : \E j \in DOMAIN w :
                N[w[j]].id = IdOf(reply.outcome.value.nodes[i])

(* the predicates whose truth a reading of a render is asked for *)
Atoms == {LeafR, LeafS, LeafLt}

(* the places of text where sep stands outside every pair of parentheses *)
TopCuts(text, sep) ==
    {i \in 1..Len(text) :
        /\ i + Len(sep) - 1 <= Len(text)
        /\ SubSeq(text, i, i + Len(sep) - 1) = sep
        /\ Cardinality({j \in 1..(i - 1) : text[j] = "("})
              = Cardinality({j \in 1..(i - 1) : text[j] = ")"})}

(* text cut at those places *)
RECURSIVE SplitTop(_, _)
SplitTop(text, sep) ==
    IF TopCuts(text, sep) = {} THEN <<text>>
    ELSE LET i == CHOOSE c \in TopCuts(text, sep) : \A d \in TopCuts(text, sep) : c <= d
         IN  <<SubSeq(text, 1, i - 1)>> \o SplitTop(SubSeq(text, i + Len(sep), Len(text)), sep)

(* the truth of an expression read with 'and' binding tighter than 'or',   *)
(* val giving the truth of the predicates                                   *)
Reads(text, x, val) ==
    LET disjuncts == SplitTop(text, <<" ", "o", "r", " ">>)
        holds(piece) == \E p \in Atoms : toSQL(p, x, 0).text = piece /\ val[p]
    IN  \E i \in 1..Len(disjuncts) :
            LET conjuncts == SplitTop(disjuncts[i], <<" ", "a", "n", "d", " ">>)
            IN  \A j \in 1..Len(conjuncts) : holds(conjuncts[j])

(* the truth of a tree of $and and $or containers over the predicates *)
RECURSIVE Denotes(_, _)
Denotes(q, val) ==
    IF q \in Atoms THEN val[q]
    ELSE IF q.operator = OP_AND THEN \A i \in 1..Len(q.parts) : Denotes(q.parts[i], val)
    ELSE \E i \in 1..Len(q.parts) : Denotes(q.parts[i], val)

(* a container of predicates under one connective *)
IsFlat(q) ==
    /\ q.operator \in {OP_AND, OP_OR}
    /\ q.field = <<>>
    /\ q.parts # <<>>
    /\ \A i \in 1..Len(q.parts) : q.parts[i] \in Atoms

(* C35: the render of an $and container that holds an $or container (or   *)
(* the other way round), read with 'and' binding tighter than 'or', is      *)
(* true for the same truth values of the predicates as the tree.            *)
C35_NestedConnectivesKeepStructure ==
    (/\ Called
     /\ node.operator \in {OP_AND, OP_OR}
     /\ node.field = <<>>
     /\ \A i \in 1..Len(node.parts) : node.parts[i] \in Atoms \/ IsFlat(node.parts[i])
     /\ \E i \in 1..Len(node.parts) :
            IsFlat(node.parts[i]) /\ node.parts[i].operator # node.operator)
    => /\ rendered.kind = "ok"
       /\ \A val \in [Atoms -> BOOLEAN] :
             Reads(rendered.text, VariableOf(variableArg), val) = Denotes(node, val)

(* C36: a node with an operator and a field renders as its one             *)
(* parenthesised predicate, whatever its parts are.                         *)
C36_PredicateIgnoresParts ==
    LET x == VariableOf(variableArg)
        predicate == IF node.operand.kind = "array" THEN arrayOperandBranch(node, x)
                     ELSE scalarOperandBranch(node, x)
    IN  (/\ Called
         /\ node.operator # <<>>
         /\ node.field # <<>>
         /\ predicate.kind = "ok")
        => rendered = Ok(predicate.text)

(* C37: the children of a node with an operator and no field are joined by *)
(* ' and ' or by ' or '.                                                    *)
C37_ConnectorIsAndOrOr ==
    (/\ Called
     /\ node.operator # <<>>
     /\ node.field = <<>>
     /\ Len(node.parts) >= 2
     /\ rendered.kind = "ok")
    => LET kids == [i \in 1..Len(node.parts) |->
                       toSQL(node.parts[i], VariableOf(variableArg), 0).text]
       IN  \/ rendered.text = Join(kids, <<" ", "a", "n", "d", " ">>)
           \/ rendered.text = Join(kids, <<" ", "o", "r", " ">>)

(* C38: a predicate whose operator is one of $eq $lt $lte $gt $gte $in     *)
(* $all $size $startsWith $contains $regex never fails with the             *)
(* unrecognized-operator error, with a scalar operand or with a sequence.   *)
C38_ReservedOperatorsRecognised ==
    (/\ Called
     /\ node.field # <<>>
     /\ node.operator \in ReservedOperators \ {OP_AND, OP_OR}
     /\ rendered.kind = "throw")
    => ~Occurs(<<"U", "n", "r", "e", "c", "o", "g", "n", "i", "z", "e", "d">>, rendered.message)

(* C40: a deleteNode called with a plain object as filter reports success  *)
(* through done.                                                            *)
C40_DeleteNodeByFilter ==
    (/\ reply # NotCalled
     /\ reply.call = "deleteNode"
     /\ isPlainObject(reply.args[1]))
    => (reply.outcome.kind = "done" /\ reply.outcome.error = Null)

----------------------------------------------------------------------------
(* The same filter on both paths: the tree rendered by toSQL and the raw    *)
(* filter translated by toSequelize, against the rows of a store            *)

(* a filter as the renderer's tests write it, with the tree whose render    *)
(* they expect of the parser                                                 *)
Both(filter, tree) == [filter |-> filter, tree |-> tree]

FilterR == One(FIELD_X, Str(<<"R">>))
FilterS == One(FIELD_X, Str(<<"S">>))
FilterLt == One(FIELD_X, One(OP_LT, Num(45)))
FilterInList == One(FIELD_X, One(OP_IN, Arr(<<Num(1), Num(2)>>)))
LeafIn == Leaf(OP_IN, FIELD_X, Arr(<<Num(1), Num(2)>>))

SameFilters ==
    {Both(FilterR, LeafR),
     Both(FilterS, LeafS),
     Both(FilterLt, LeafLt),
     Both(FilterInList, LeafIn),
     Both(One(OP_OR, Arr(<<FilterR, FilterS>>)), Container(OP_OR, <<LeafR, LeafS>>)),
     Both(One(OP_OR, Arr(<<FilterLt, FilterR>>)), Container(OP_OR, <<LeafLt, LeafR>>)),
     Both(One(OP_AND, Arr(<<FilterLt, FilterS>>)), Container(OP_AND, <<LeafLt, LeafS>>)),
     Both(One(OP_AND, Arr(<<FilterR, FilterS>>)), Container(OP_AND, <<LeafR, LeafS>>))}

(* the rows of a populated Nodes table: x is 'R', 'S', below 45 or above *)
RowOfX(id, x) == NodeRow(Str(id), Str(<<>>), One(FIELD_X, x))

PopulatedStores ==
    {<<RowOfX(NODE_1, Str(<<"R">>)), RowOfX(NODE_2, Str(<<"S">>)), RowOfX(NODE_3, Num(1))>>,
     <<RowOfX(NODE_1, Num(50)), RowOfX(NODE_2, Str(<<"S">>)), RowOfX(NODE_3, Num(44))>>}

InitBoth ==
    /\ \E both \in SameFilters : node = both.tree /\ projector = both.filter
    /\ variableArg \in VariableArgs
    /\ rendered = NotCalled
    /\ translated = NotCalled
    /\ isInitialized = TRUE
    /\ N \in PopulatedStores
    /\ E = <<>>
    /\ reply = NotCalled
    /\ pending = {}
    /\ graphElement = NoInput
    /\ converted = NotCalled
    /\ adapterOptions = DefaultSchemaOptions
    /\ pc = [c \in Clients |-> Idle]
    /\ connections = 1
    /\ schema = 1

NextBoth == CallToSQL \/ CallToSequelize

SpecBoth == InitBoth /\ [][NextBoth]_vars

(* a row makes a predicate of the tree true *)
RowHolds(row, p) ==
    LET x == Get(row.data.props, Str(p.field))
    IN  IF p.operator = OP_IN
        THEN \E i \in 1..Len(p.operand.items) : p.operand.items[i] = x
        ELSE Holds(p.operator, x, p.operand)

(* the rows an expression selects: those that make it true, read with      *)
(* 'and' binding tighter than 'or', each predicate judged on the row        *)
SelectedByExpression(text, x, rows) ==
    LET predicates == Atoms \cup {LeafIn}
        holds(piece, row) ==
            \E p \in predicates : toSQL(p, x, 0).text = piece /\ RowHolds(row, p)
        disjuncts == SplitTop(text, <<" ", "o", "r", " ">>)
    IN  {r \in 1..Len(rows) :
            \E i \in 1..Len(disjuncts) :
                LET conjuncts == SplitTop(disjuncts[i], <<" ", "a", "n", "d", " ">>)
                IN  \A j \in 1..Len(conjuncts) : holds(conjuncts[j], rows[r])}

(* the rows the where clause of a findAll descriptor selects *)
SelectedBy(descriptor, rows) ==
    LET where == Get(descriptor.props, Str(KEY_WHERE))
    IN  {i \in 1..Len(rows) : where = Undefined \/ RowMatches(where, rows[i])}

(* C34: for one filter, the expression toSQL renders of its tree and the   *)
(* where clause toSequelize makes of it select the same rows of a           *)
(* populated store.                                                          *)
C34_BothPathsSelectSameRecords ==
    (rendered # NotCalled /\ translated # NotCalled) =>
        /\ rendered.kind = "ok"
        /\ translated.kind = "ok"
        /\ SelectedBy(translated.value, N)
              = SelectedByExpression(rendered.text, VariableOf(variableArg), N)

====
